---- MODULE Spec2Model ----
(***************************************************************************)
(* A model of the Evernode client library (BaseEvernodeClient and the      *)
(* older classifiers kept in the repository): the moment arithmetic,       *)
(* extractEvernodeEvent, the classifier of ledger transactions, the ledger *)
(* reads, Defaults, the life of a client object and the handler of the     *)
(* transactions its subscription delivers.                                 *)
(*                                                                         *)
(* Byte buffers are sequences of 0..255, hex strings are sequences of hex  *)
(* digits 0..15 (two per byte, letter case dropped), base64 strings are    *)
(* sequences of 6-bit digits 0..63 with 64 standing for the '=' padding.   *)
(***************************************************************************)
EXTENDS Integers, Sequences, FiniteSets, TLC

VARIABLES
    config,        \* this.config: momentBaseInfo {baseIdx, baseTransitionMoment}, momentSize
    now,           \* UtilHelpers.getCurrentUnixTime()
    last,          \* the most recent completed getMoment / getMomentStartIndex call
    prev,          \* the completed call before it
    client,        \* the client: xrplAcc.address, messagePrivateKey
    gen,           \* which classifier the call in progress runs
    tx,            \* the transaction handed to extractEvernodeEvent
    pc,            \* position of the extractEvernodeEvent call
    payload,       \* the local variable 'payload' of the call
    result,        \* what the call returned (an event, null) or that it threw
    decryptCalls,  \* EncryptionHelper.decrypt invocations made by the call
    decrypted,     \* the local constant 'decrypted': what the && expression gave
    read,          \* the ledger read in progress: operation, answers so far, outcome
    first,         \* the outcome of the first of two calls made with one transaction
    defaults,      \* DefaultValues of defaults.js, and the last read of Defaults.values
    xrplApis,      \* the XrplApi objects: which of them are connected
    instances,     \* the client objects: xrplApi, #ownsXrplApi, connected, config
    watchEvents,   \* this.#watchEvents of the client
    deliveries,    \* the #handleEvernodeEvent invocations, in the order of delivery
    emitted        \* this.events.emit calls, in the order they were made

momentVars == <<config, now, last, prev>>
classifyVars == <<client, gen, tx, pc, payload, result, decryptCalls, decrypted>>
otherVars == <<read, first>>
lifecycleVars == <<defaults, xrplApis, instances>>
handlerVars == <<watchEvents, deliveries, emitted>>
vars == <<config, now, last, prev, client, gen, tx, pc, payload, result, decryptCalls,
         decrypted, read, first, defaults, xrplApis, instances, watchEvents,
         deliveries, emitted>>

(***************************************************************************)
(* Bounds of the model.                                                    *)
(***************************************************************************)
MaxTime == 5            \* timestamps and the clock range over ..MaxTime
MaxBaseIdx == 2         \* momentBaseInfo.baseIdx ranges over 0..MaxBaseIdx
MaxBaseMoment == 1      \* momentBaseInfo.baseTransitionMoment ranges over 0..MaxBaseMoment
MaxMomentSize == 2      \* momentSize ranges over 1..MaxMomentSize
MaxAddr == 2            \* accounts 1..MaxAddr; account 1 is the client's own
MaxFill == 1            \* distinct contents of a buffer of a given layout
MaxFlag == 2            \* payload format flags 0..MaxFlag
MaxStatus == 2          \* status / vote / mode bytes 1..MaxStatus
HostHeartbeatFreq == 1  \* this.config.hostHeartbeatFreq, in moments
MaxSets == 3            \* Defaults.set calls in a run
MaxBuilds == 2          \* config objects #getEvernodeConfig builds for a client
MaxDeliveries == 2      \* transactions delivered to the handler in a run

(***************************************************************************)
(* MomentCalculator: getMoment and getMomentStartIndex.                    *)
(***************************************************************************)
\* An optional numeric argument: absent (null, the default) or a number.
Absent == [present |-> FALSE, v |-> 0]
Given(n) == [present |-> TRUE, v |-> n]

\* JavaScript's  index || d : the right operand when the left one is falsy.
\* null is falsy, and so is the number 0.
OrDefault(index, d) == IF (~index.present) \/ index.v = 0 THEN d ELSE index.v

\* Math.floor(a / b) for b > 0.
FloorDiv(a, b) == a \div b

getMoment(cfg, clock, index) ==
    LET i == OrDefault(index, clock)
    IN  cfg.baseTransitionMoment + FloorDiv(i - cfg.baseIdx, cfg.momentSize)

getMomentStartIndex(cfg, clock, index) ==
    LET i == OrDefault(index, clock)
        m == FloorDiv(i - cfg.baseIdx, cfg.momentSize)
    IN  cfg.baseIdx + (m * cfg.momentSize)

Configs ==
    [baseIdx : 0..MaxBaseIdx,
     baseTransitionMoment : 0..MaxBaseMoment,
     momentSize : 1..MaxMomentSize]

\* The timestamps a caller passes: ledger-close times, and the (possibly
\* negative) start indexes an earlier call returned.
Timestamps == (0 - MaxMomentSize)..MaxTime
Indexes == {Absent} \cup {Given(t) : t \in Timestamps}

NoCall == [op |-> "none", index |-> Absent, ret |-> 0]

CallGetMoment(index) ==
    /\ prev' = last
    /\ last' = [op |-> "getMoment", index |-> index,
                ret |-> getMoment(config, now, index)]
    /\ UNCHANGED <<config, now>>
    /\ UNCHANGED classifyVars
    /\ UNCHANGED otherVars
    /\ UNCHANGED <<lifecycleVars, handlerVars>>

CallGetMomentStartIndex(index) ==
    /\ prev' = last
    /\ last' = [op |-> "getMomentStartIndex", index |-> index,
                ret |-> getMomentStartIndex(config, now, index)]
    /\ UNCHANGED <<config, now>>
    /\ UNCHANGED classifyVars
    /\ UNCHANGED otherVars
    /\ UNCHANGED <<lifecycleVars, handlerVars>>

\* The wall clock advances.
Tick ==
    /\ now < MaxTime
    /\ now' = now + 1
    /\ UNCHANGED <<config, last, prev>>
    /\ UNCHANGED classifyVars
    /\ UNCHANGED otherVars
    /\ UNCHANGED <<lifecycleVars, handlerVars>>

(***************************************************************************)
(* Buffers, hex strings and base64 strings.                                *)
(***************************************************************************)
Min(a, b) == IF a < b THEN a ELSE b

\* buf.slice(a, b) for 0 <= a: the bytes at offsets a .. b-1, clipped to the buffer.
Slice(buf, a, b) ==
    LET e == Min(b, Len(buf))
    IN  IF a >= e THEN <<>> ELSE [i \in 1..(e - a) |-> buf[a + i]]

\* buf.slice(a): the bytes from offset a on.
SliceFrom(buf, a) == Slice(buf, a, Len(buf))

\* str.substr(start, n): at most n characters from offset start.
Substr(str, start, n) == Slice(str, start, start + n)

\* buf.toString('hex'): two digits a byte, high digit first.
ToHex(buf) ==
    [i \in 1..(2 * Len(buf)) |->
        IF i % 2 = 1 THEN buf[(i + 1) \div 2] \div 16 ELSE buf[i \div 2] % 16]

\* Buffer.from(str, 'hex'): one byte for every whole pair of digits, up to
\* the first pair that is not two hex digits.
FromHex(str) ==
    LET pairs == Len(str) \div 2
        bad == {i \in 1..pairs : str[2 * i - 1] > 15 \/ str[2 * i] > 15}
        n == IF bad = {} THEN pairs ELSE (CHOOSE i \in bad : \A j \in bad : i <= j) - 1
    IN  [i \in 1..n |-> 16 * str[2 * i - 1] + str[2 * i]]

\* Buffer.alloc(n, 0) and src.copy(dst, off).
Alloc(n) == [i \in 1..n |-> 0]
CopyInto(dst, src, off) ==
    [i \in 1..Len(dst) |->
        IF i > off /\ i <= off + Len(src) THEN src[i - off] ELSE dst[i]]

\* Buffer.from(str, 'base64'): four digits give three bytes; a trailing group
\* of two digits gives one byte, of three digits two bytes; the padding (64)
\* is skipped.
FromBase64(str) ==
    LET d == SelectSeq(str, LAMBDA c : c < 64)
        n == Len(d)
        full == n \div 4
        rest == n % 4
        nbytes == 3 * full + (IF rest >= 2 THEN rest - 1 ELSE 0)
        Group(g) == d[4 * g + 1] * 262144
                    + (IF 4 * g + 2 <= n THEN d[4 * g + 2] * 4096 ELSE 0)
                    + (IF 4 * g + 3 <= n THEN d[4 * g + 3] * 64 ELSE 0)
                    + (IF 4 * g + 4 <= n THEN d[4 * g + 4] ELSE 0)
        ByteAt(k) ==
            LET g == (k - 1) \div 3
                j == (k - 1) % 3
            IN  IF j = 0 THEN Group(g) \div 65536
                ELSE IF j = 1 THEN (Group(g) \div 256) % 256
                ELSE Group(g) % 256
    IN  [k \in 1..nbytes |-> ByteAt(k)]

\* buf.toString('base64'): three bytes give four digits, the last group padded.
ToBase64(buf) ==
    LET n == Len(buf)
        groups == (n + 2) \div 3
        B(k) == IF k <= n THEN buf[k] ELSE 0
        Group(g) == B(3 * g + 1) * 65536 + B(3 * g + 2) * 256 + B(3 * g + 3)
        DigitAt(k) ==
            LET g == (k - 1) \div 4
                j == (k - 1) % 4
                have == n - 3 * g
            IN  IF j = 0 THEN Group(g) \div 262144
                ELSE IF j = 1 THEN (Group(g) \div 4096) % 64
                ELSE IF j = 2 THEN (IF have >= 2 THEN (Group(g) \div 64) % 64 ELSE 64)
                ELSE (IF have >= 3 THEN Group(g) % 64 ELSE 64)
    IN  [k \in 1..(4 * groups) |-> DigitAt(k)]

\* buf.readInt8(0): the first byte as a signed number.
ReadInt8(buf) == IF buf[1] >= 128 THEN buf[1] - 256 ELSE buf[1]

\* buf.readUInt8(off) throws a RangeError unless the byte exists.
CanRead(buf, off) == off < Len(buf)
ReadUInt8(buf, off) == buf[off + 1]

(***************************************************************************)
(* Constants of evernode-common and xrpl-common.                           *)
(***************************************************************************)
\* EventTypes
EventTypes ==
    [ACQUIRE_LEASE |-> "evnAcquireLease",
     ACQUIRE_SUCCESS |-> "evnAcquireSuccess",
     ACQUIRE_ERROR |-> "evnAcquireError",
     ACQUIRE_REF |-> "evnAcquireRef",
     HOST_REG |-> "evnHostReg",
     HOST_DEREG |-> "evnHostDereg",
     HOST_UPDATE_INFO |-> "evnHostUpdateReg",
     HEARTBEAT |-> "evnHeartbeat",
     HOST_TRANSFER |-> "evnTransfer",
     EXTEND_LEASE |-> "evnExtendLease",
     EXTEND_SUCCESS |-> "evnExtendSuccess",
     EXTEND_ERROR |-> "evnExtendError",
     EXTEND_REF |-> "evnExtendRef",
     TERMINATE_LEASE |-> "evnTerminateLease",
     INIT |-> "evnInitialize",
     REFUND |-> "evnRefund",
     DEAD_HOST_PRUNE |-> "evnDeadHostPrune",
     HOST_REBATE |-> "evnHostRebate",
     CANDIDATE_PROPOSE |-> "evnCandidatePropose",
     CANDIDATE_PROPOSE_REF |-> "evnCandidateProposeRef",
     CANDIDATE_WITHDRAW |-> "evnCandidateWithdraw",
     CANDIDATE_VOTE |-> "evnCandidateVote",
     CANDIDATE_STATUS_CHANGE |-> "evnCandidateStatusChange",
     DUD_HOST_REPORT |-> "evnDudHostReport",
     HOOK_UPDATE_RES |-> "evnHookUpdateRes",
     GOVERNANCE_MODE_CHANGE |-> "evnGovernanceModeChange",
     LINKED_CANDIDATE_REMOVE |-> "evnRemoveLinkedCandidate",
     HOST_UPDATE_REPUTATION |-> "evnHostUpdateReputation"]

\* MemoFormats
MemoFormats ==
    [TEXT |-> "text/plain",
     JSON |-> "text/json",
     BASE64 |-> "base64",
     HEX |-> "hex"]

\* HookParamKeys (the last digits of the 32-byte keys)
HookParamKeys ==
    [PARAM_EVENT_TYPE_KEY |-> "4556520100000002",
     PARAM_EVENT_DATA_KEY |-> "4556520100000003",
     PARAM_EVENT_DATA2_KEY |-> "4556520100000004"]

\* EvernodeConstants.CandidateTypes and CandidateStatuses
NewHook == 1
PilotedMode == 2
DudHost == 3
CANDIDATE_ELECTED == 2

\* XrplTransactionTypes
URI_TOKEN_BUY_OFFER == "URITokenBuy"
PAYMENT == "Payment"

\* Offsets and sizes of base-evernode-client
CANDIDATE_PROPOSE_HASHES_PARAM_OFFSET == 0
CANDIDATE_PROPOSE_KEYLETS_PARAM_OFFSET == 128
CANDIDATE_PROPOSE_UNIQUE_ID_PARAM_OFFSET == 264
CANDIDATE_PROPOSE_SHORT_NAME_PARAM_OFFSET == 296
CANDIDATE_PROPOSE_PARAM_SIZE == 316
MAX_HOOK_PARAM_SIZE == 256
DUD_HOST_CANDID_ADDRESS_OFFSET == 12
REPUTATION_HOST_ADDRESS_PARAM_OFFSET == 0
REPUTATION_VALUE_PARAM_OFFSET == 20
HOST_DEREG_FROM_REP_PARAM_SIZE == 53

\* ReputationConstants and EvernodeConstants.ReputationAccountMode.
REP_INFO_BUFFER_SIZE == 43
REP_INFO_PUBKEY_OFFSET == 0
REP_INFO_PEER_PORT_OFFSET == 33
REP_INFO_MOMENT_OFFSET == 35
OneToOne == 1
OneToMany == 2

(***************************************************************************)
(* Helpers of other modules that the classifier calls.                     *)
(***************************************************************************)
\* codec.encodeAccountID(buf): the address of a 20-byte account id; it throws
\* for a buffer of any other length.
CanEncodeAccountID(buf) == Len(buf) = 20
encodeAccountID(buf) == [accountId |-> buf]

\* The fixed bytes of a candidate id outside the embedded address: zero but
\* for the candidate type at offset 4.
CandidateIdTag(type) == [i \in 1..DUD_HOST_CANDID_ADDRESS_OFFSET |-> IF i = 5 THEN type ELSE 0]

\* StateHelpers.getPilotedModeCandidateId(): the one reserved id.
getPilotedModeCandidateId == ToHex(CopyInto(Alloc(32), CandidateIdTag(PilotedMode), 0))

\* StateHelpers.getDudHostCandidateId(address): the account id at offset 12 of
\* a 32-byte id tagged DudHost.
getDudHostCandidateId(address) ==
    ToHex(CopyInto(CopyInto(Alloc(32), CandidateIdTag(DudHost), 0),
                   address.accountId, DUD_HOST_CANDID_ADDRESS_OFFSET))

\* StateHelpers.getCandidateType(candidateId): by the byte pattern of the id.
getCandidateType(candidateId) ==
    LET b == FromHex(candidateId)
    IN  IF Len(b) = 32 /\ Slice(b, 0, DUD_HOST_CANDID_ADDRESS_OFFSET) = CandidateIdTag(DudHost)
        THEN DudHost
        ELSE IF candidateId = getPilotedModeCandidateId THEN PilotedMode
        ELSE NewHook

\* JSON.parse(text) on the texts the model feeds it: a decimal number without
\* a leading zero, or the empty object; any other text of the model's inputs
\* is no JSON and makes JSON.parse throw a SyntaxError.
IsDigit(c) == c >= 48 /\ c <= 57
IsJsonNumber(text) ==
    /\ Len(text) >= 1
    /\ \A i \in 1..Len(text) : IsDigit(text[i])
    /\ (Len(text) > 1 => text[1] # 48)
IsJsonObject(text) == text = <<123, 125>>
ReasonKey == <<123, 34, 114, 101, 97, 115, 111, 110, 34, 58>>
IsJsonReason(text) ==
    /\ Len(text) > Len(ReasonKey) + 1
    /\ SubSeq(text, 1, Len(ReasonKey)) = ReasonKey
    /\ text[Len(text)] = 125
    /\ IsJsonNumber(SubSeq(text, Len(ReasonKey) + 1, Len(text) - 1))
CanJsonParse(text) == IsJsonNumber(text) \/ IsJsonObject(text) \/ IsJsonReason(text)
RECURSIVE DecimalValue(_)
DecimalValue(text) ==
    IF text = <<>> THEN 0
    ELSE 10 * DecimalValue(SubSeq(text, 1, Len(text) - 1)) + (text[Len(text)] - 48)
\* The parsed value: a number, or an object with its 'reason' member if any.
JsonParse(text) ==
    IF IsJsonObject(text) THEN [kind |-> "object", v |-> <<>>]
    ELSE IF IsJsonReason(text)
         THEN [kind |-> "object",
               v |-> <<DecimalValue(SubSeq(text, Len(ReasonKey) + 1, Len(text) - 1))>>]
    ELSE [kind |-> "number", v |-> <<DecimalValue(text)>>]
\* value.reason: the member of an object, undefined for anything else.
ReasonOf(value) ==
    IF value.kind = "object" /\ value.v # <<>>
    THEN [kind |-> "number", v |-> value.v]
    ELSE [kind |-> "undefined", v |-> <<>>]

\* A payload that is still a string (base64 or any other memo text).
StringPayload(str) == [kind |-> "string", v |-> str]

\* EncryptionHelper.decrypt(key, payload): the plaintext of the ciphertext, or
\* nothing (null) when it cannot be decrypted.
Plaintext(cipher) == [kind |-> "decrypted", v |-> cipher]

(***************************************************************************)
(* Transactions, as TransactionHelper hands them to the classifier.        *)
(***************************************************************************)
\* A deserialized hook parameter: its name and its value. The value of the
\* event-type parameter is a name (text), the value of a data parameter is
\* a hex string (hex).
Param(name, text, hex) == [name |-> name, text |-> text, hex |-> hex]
TypeParam(type) == Param(HookParamKeys.PARAM_EVENT_TYPE_KEY, type, <<>>)
DataParam(hex) == Param(HookParamKeys.PARAM_EVENT_DATA_KEY, "", hex)
Data2Param(hex) == Param(HookParamKeys.PARAM_EVENT_DATA2_KEY, "", hex)

\* A deserialized memo.
Memo(type, format, data) == [type |-> type, format |-> format, data |-> data]

\* params.find(p => p.name === key): the index of the first match, 0 for none.
FindParam(params, key) ==
    LET hits == {i \in 1..Len(params) : params[i].name = key}
    IN  IF hits = {} THEN 0 ELSE CHOOSE i \in hits : \A j \in hits : i <= j

Undefined == "undefined"

\* let eventType: the value of the event-type parameter, or undefined.
EventTypeOf(t) ==
    IF Len(t.HookParameters) = 0 THEN Undefined
    ELSE LET i == FindParam(t.HookParameters, HookParamKeys.PARAM_EVENT_TYPE_KEY)
         IN  IF i = 0 THEN Undefined ELSE t.HookParameters[i].text

\* let eventData: the value of the event-data parameter, '' when the list
\* has none; undefined (falsy like '') when the list is empty.
EventDataOf(t) ==
    IF Len(t.HookParameters) = 0 THEN <<>>
    ELSE LET i == FindParam(t.HookParameters, HookParamKeys.PARAM_EVENT_DATA_KEY)
         IN  IF i = 0 THEN <<>> ELSE t.HookParameters[i].hex

(***************************************************************************)
(* extractEvernodeEvent: the dispatch predicates of the if/else-if chain.  *)
(* A predicate is "T" (satisfied), "F" (not satisfied) or "X" (evaluating  *)
(* it throws, as reading a member of an absent memo does).                 *)
(***************************************************************************)
B(b) == IF b THEN "T" ELSE "F"
Truthy(str) == str # <<>>

\* a && b && ... : the first conjunct that is not satisfied decides.
AllOf(cs) ==
    IF \A i \in 1..Len(cs) : cs[i] = "T" THEN "T"
    ELSE cs[CHOOSE i \in 1..Len(cs) : cs[i] # "T" /\ \A j \in 1..(i - 1) : cs[j] = "T"]

\* tx.Memos.length, tx.Memos[i].type === type, ... (i counts from 1 here)
HasMemos(t, n) == B(Len(t.Memos) >= n)
MemoTypeIs(t, i, type) == IF Len(t.Memos) < i THEN "X" ELSE B(t.Memos[i].type = type)
MemoFormatIs(t, i, format) == IF Len(t.Memos) < i THEN "X" ELSE B(t.Memos[i].format = format)
MemoHasData(t, i) == IF Len(t.Memos) < i THEN "X" ELSE B(Truthy(t.Memos[i].data))

\* eventType === type && eventData
HasTypeAndData(t, type) == AllOf(<<B(EventTypeOf(t) = type), B(Truthy(EventDataOf(t)))>>)

IsAcquireLease(t) ==
    AllOf(<<B(t.TransactionType = URI_TOKEN_BUY_OFFER),
            B(EventTypeOf(t) = EventTypes.ACQUIRE_LEASE),
            HasMemos(t, 1), MemoTypeIs(t, 1, EventTypes.ACQUIRE_LEASE),
            MemoFormatIs(t, 1, MemoFormats.BASE64), MemoHasData(t, 1)>>)
IsAcquireSuccess(t) ==
    AllOf(<<B(EventTypeOf(t) = EventTypes.ACQUIRE_SUCCESS), B(Truthy(EventDataOf(t))),
            HasMemos(t, 1), MemoTypeIs(t, 1, EventTypes.ACQUIRE_SUCCESS), MemoHasData(t, 1)>>)
\* A variant of the AcquireError predicate that reads Memos[0] without
\* looking at tx.Memos.length first.
IsAcquireErrorUnguarded(t) ==
    AllOf(<<B(EventTypeOf(t) = EventTypes.ACQUIRE_ERROR), B(Truthy(EventDataOf(t))),
            MemoTypeIs(t, 1, EventTypes.ACQUIRE_ERROR), MemoHasData(t, 1)>>)
IsAcquireError(t) ==
    AllOf(<<B(EventTypeOf(t) = EventTypes.ACQUIRE_ERROR), B(Truthy(EventDataOf(t))),
            HasMemos(t, 1), MemoTypeIs(t, 1, EventTypes.ACQUIRE_ERROR), MemoHasData(t, 1)>>)
IsHeartbeat(t) == B(EventTypeOf(t) = EventTypes.HEARTBEAT)
IsExtendSuccess(t) ==
    AllOf(<<B(EventTypeOf(t) = EventTypes.EXTEND_SUCCESS), B(Truthy(EventDataOf(t))),
            HasMemos(t, 1), MemoTypeIs(t, 1, EventTypes.EXTEND_SUCCESS),
            MemoFormatIs(t, 1, MemoFormats.HEX), MemoHasData(t, 1)>>)
IsExtendError(t) ==
    AllOf(<<B(EventTypeOf(t) = EventTypes.EXTEND_ERROR), B(Truthy(EventDataOf(t))),
            HasMemos(t, 1), MemoTypeIs(t, 1, EventTypes.EXTEND_ERROR), MemoHasData(t, 1)>>)
\* A variant of the HostRebate predicate broadened to registrations.
IsHostRebateOrReg(t) == B(EventTypeOf(t) \in {EventTypes.HOST_REBATE, EventTypes.HOST_REG})
IsHostRebate(t) == B(EventTypeOf(t) = EventTypes.HOST_REBATE)

\* The chain, in the order of the source: the rule's name and its predicate.
Chain(t) ==
    << <<"AcquireLease", IsAcquireLease(t)>>,
       <<"AcquireSuccess", IsAcquireSuccess(t)>>,
       <<"AcquireError", IsAcquireError(t)>>,
       <<"HostReg", HasTypeAndData(t, EventTypes.HOST_REG)>>,
       <<"HostDereg", HasTypeAndData(t, EventTypes.HOST_DEREG)>>,
       <<"Heartbeat", IsHeartbeat(t)>>,
       <<"ExtendLease", HasTypeAndData(t, EventTypes.EXTEND_LEASE)>>,
       <<"TerminateLease", HasTypeAndData(t, EventTypes.TERMINATE_LEASE)>>,
       <<"ExtendSuccess", IsExtendSuccess(t)>>,
       <<"ExtendError", IsExtendError(t)>>,
       <<"Init", HasTypeAndData(t, EventTypes.INIT)>>,
       <<"HostUpdateInfo", HasTypeAndData(t, EventTypes.HOST_UPDATE_INFO)>>,
       <<"DeadHostPrune", HasTypeAndData(t, EventTypes.DEAD_HOST_PRUNE)>>,
       <<"HostRebate", IsHostRebate(t)>>,
       <<"HostTransfer", HasTypeAndData(t, EventTypes.HOST_TRANSFER)>>,
       <<"CandidatePropose", HasTypeAndData(t, EventTypes.CANDIDATE_PROPOSE)>>,
       <<"CandidateWithdraw", HasTypeAndData(t, EventTypes.CANDIDATE_WITHDRAW)>>,
       <<"CandidateStatusChange", HasTypeAndData(t, EventTypes.CANDIDATE_STATUS_CHANGE)>>,
       <<"LinkedCandidateRemove", HasTypeAndData(t, EventTypes.LINKED_CANDIDATE_REMOVE)>>,
       <<"HookUpdateRes", HasTypeAndData(t, EventTypes.HOOK_UPDATE_RES)>>,
       <<"GovernanceModeChange", HasTypeAndData(t, EventTypes.GOVERNANCE_MODE_CHANGE)>>,
       <<"CandidateVote", HasTypeAndData(t, EventTypes.CANDIDATE_VOTE)>>,
       <<"DudHostReport", HasTypeAndData(t, EventTypes.DUD_HOST_REPORT)>>,
       <<"HostUpdateReputation", HasTypeAndData(t, EventTypes.HOST_UPDATE_REPUTATION)>> >>

\* if / else if / ... : the first predicate that is satisfied, in order,
\* selects the rule; "none" when the chain falls through, "throw" when
\* evaluating a predicate throws before any is satisfied.
FirstRule(chain) ==
    LET hits == {i \in 1..Len(chain) : chain[i][2] # "F"}
    IN  IF hits = {} THEN "none"
        ELSE LET i == CHOOSE k \in hits : \A j \in hits : k <= j
             IN  IF chain[i][2] = "X" THEN "throw" ELSE chain[i][1]

\* The rules whose predicate the transaction satisfies, whatever the order.
SatisfiedRules(chain) == {chain[i][1] : i \in {k \in 1..Len(chain) : chain[k][2] = "T"}}

(***************************************************************************)
(* extractEvernodeEvent: what each rule returns.                           *)
(***************************************************************************)
Null == [status |-> "null"]
Threw == [status |-> "throw"]
Event(name, data) == [status |-> "event", name |-> name, data |-> data]

\* tx.Amount and tx.DeliveredAmount: an issued-currency amount, or absent.
NoAmount == [present |-> FALSE, currency |-> "", issuer |-> "", value |-> 0]
Amount(currency, value) ==
    [present |-> TRUE, currency |-> currency, issuer |-> "rIssuer", value |-> value]

\* buf.readUInt32BE(0)
ReadUInt32BE(buf) == ((buf[1] * 256 + buf[2]) * 256 + buf[3]) * 256 + buf[4]

HostRegistered(t) == Event("HostRegistered", [transaction |-> t.hash, host |-> t.Account])

\* The 20 bytes that the EventTypes.HOST_DEREG rule decodes always exist when the
\* length test passes, so encodeAccountID cannot throw here.
HostDeregistered(t) ==
    LET eventData == EventDataOf(t)
    IN  Event("HostDeregistered",
              [transaction |-> t.hash,
               host |-> IF Len(eventData) = HOST_DEREG_FROM_REP_PARAM_SIZE
                        THEN encodeAccountID(Slice(FromHex(eventData), 0, 20))
                        ELSE t.Account])

Heartbeat(t) ==
    LET eventData == EventDataOf(t)
        voteBuf == Slice(FromHex(eventData), 32, 33)
    IN  IF Truthy(eventData)
        THEN IF ~CanRead(voteBuf, 0) THEN Threw
             ELSE Event("Heartbeat",
                        [transaction |-> t.hash, host |-> t.Account,
                         voteInfo |-> [candidateId |-> Substr(eventData, 0, 64),
                                       vote |-> ReadUInt8(voteBuf, 0)]])
        ELSE Event("Heartbeat", [transaction |-> t.hash, host |-> t.Account])

ExtendLease(t) ==
    IF ~t.Amount.present THEN Threw
    ELSE IF t.partial /\ ~t.DeliveredAmount.present THEN Threw
    ELSE Event("ExtendLease",
               [transaction |-> t.hash, extendRefId |-> t.hash, tenant |-> t.Account,
                currency |-> t.Amount.currency,
                payment |-> IF t.partial THEN t.DeliveredAmount.value ELSE t.Amount.value,
                uriTokenId |-> EventDataOf(t)])

TerminateLease(t) ==
    Event("TerminateLease",
          [transaction |-> t.hash, terminateRefId |-> t.hash, tenant |-> t.Account,
           uriTokenId |-> EventDataOf(t)])

ExtendSuccess(t) ==
    LET extendResBuf == FromHex(t.Memos[1].data)
    IN  IF Len(extendResBuf) < 4 THEN Threw
        ELSE Event("ExtendSuccess",
                   [transaction |-> t.hash, extendRefId |-> EventDataOf(t),
                    expiryMoment |-> ReadUInt32BE(extendResBuf)])

\* AcquireError: the reason is the memo text, or the 'reason' member of the
\* memo parsed as JSON.
AcquireError(t) ==
    LET error == t.Memos[1].data
    IN  IF t.Memos[1].format = MemoFormats.JSON
        THEN IF ~CanJsonParse(error) THEN Threw
             ELSE Event("AcquireError",
                        [transaction |-> t.hash, acquireRefId |-> EventDataOf(t),
                         reason |-> ReasonOf(JsonParse(error))])
        ELSE Event("AcquireError",
                   [transaction |-> t.hash, acquireRefId |-> EventDataOf(t),
                    reason |-> StringPayload(error)])

ExtendError(t) ==
    LET error == t.Memos[1].data
    IN  IF t.Memos[1].format = MemoFormats.JSON
        THEN IF ~CanJsonParse(error) THEN Threw
             ELSE Event("ExtendError",
                        [transaction |-> t.hash, extendRefId |-> EventDataOf(t),
                         reason |-> ReasonOf(JsonParse(error))])
        ELSE Event("ExtendError",
                   [transaction |-> t.hash, extendRefId |-> EventDataOf(t),
                    reason |-> StringPayload(error)])

Initialized(t) == Event("Initialized", [transaction |-> t.hash])
HostRegUpdated(t) == Event("HostRegUpdated", [transaction |-> t.hash, host |-> t.Account])
HostRebate(t) == Event("HostRebate", [transaction |-> t.hash, host |-> t.Account])

DeadHostPrune(t) ==
    LET addrsBuf == FromHex(EventDataOf(t))
    IN  IF ~CanEncodeAccountID(addrsBuf) THEN Threw
        ELSE Event("DeadHostPrune", [transaction |-> t.hash, host |-> encodeAccountID(addrsBuf)])

HostTransfer(t) ==
    LET addrsBuf == FromHex(EventDataOf(t))
    IN  IF ~CanEncodeAccountID(addrsBuf) THEN Threw
        ELSE Event("HostTransfer",
                   [transaction |-> t.hash, transferee |-> encodeAccountID(addrsBuf)])

CandidateProposed(t) ==
    Event("CandidateProposed",
          [transaction |-> t.hash, owner |-> t.Account,
           candidateId |->
               Substr(EventDataOf(t), CANDIDATE_PROPOSE_UNIQUE_ID_PARAM_OFFSET * 2, 64)])

CandidateWithdrawn(t) ==
    Event("CandidateWithdrawn",
          [transaction |-> t.hash, owner |-> t.Account,
           candidateId |-> Substr(EventDataOf(t), 0, 64)])

\* A variant that takes the account id from the start of the candidate id.
DudHostAddressBufFromStart(candidateId) == Slice(FromHex(candidateId), 0, 20)

\* The address embedded in a candidate id.
DudHostAddressBuf(candidateId) == Slice(FromHex(candidateId), DUD_HOST_CANDID_ADDRESS_OFFSET, 32)

\* A variant of the status-change branch that does not look at the status.
CandidateStatusChangeAnyStatus(t) ==
    LET eventDataBuf == FromHex(EventDataOf(t))
        candidateId == ToHex(Slice(eventDataBuf, 0, 32))
        candidateType == getCandidateType(candidateId)
    IN  IF candidateType = DudHost
        THEN Event("DudHostStatusChanged",
                   [transaction |-> t.hash, candidateId |-> candidateId,
                    host |-> encodeAccountID(Slice(FromHex(candidateId), 12, 32))])
        ELSE IF candidateType = PilotedMode
        THEN Event("FallbackToPiloted", [transaction |-> t.hash, candidateId |-> candidateId])
        ELSE Event("NewHookStatusChanged", [transaction |-> t.hash, candidateId |-> candidateId])

CandidateStatusChange(t) ==
    LET eventDataBuf == FromHex(EventDataOf(t))
        candidateId == ToHex(Slice(eventDataBuf, 0, 32))
        candidateType == getCandidateType(candidateId)
    IN  IF candidateType = DudHost
        THEN IF ~CanRead(eventDataBuf, 32) THEN Threw
             ELSE IF ~CanEncodeAccountID(DudHostAddressBuf(candidateId)) THEN Threw
             ELSE Event(IF ReadUInt8(eventDataBuf, 32) = CANDIDATE_ELECTED
                        THEN "DudHostRemoved" ELSE "DudHostStatusChanged",
                        [transaction |-> t.hash, candidateId |-> candidateId,
                         host |-> encodeAccountID(DudHostAddressBuf(candidateId))])
        ELSE IF candidateType = PilotedMode
        THEN Event("FallbackToPiloted", [transaction |-> t.hash, candidateId |-> candidateId])
        ELSE IF candidateType = NewHook
        THEN Event("NewHookStatusChanged", [transaction |-> t.hash, candidateId |-> candidateId])
        ELSE Null

\* A variant of the linked-candidate branch that does not look at the type.
LinkedCandidateRemoveAnyType(t) ==
    LET candidateId == ToHex(Slice(FromHex(EventDataOf(t)), 0, 32))
    IN  Event("LinkedDudHostCandidateRemoved",
              [transaction |-> t.hash, candidateId |-> candidateId,
               host |-> encodeAccountID(Slice(FromHex(candidateId), 12, 32))])

LinkedCandidateRemove(t) ==
    LET eventDataBuf == FromHex(EventDataOf(t))
        candidateId == ToHex(Slice(eventDataBuf, 0, 32))
        candidateType == getCandidateType(candidateId)
    IN  IF candidateType = DudHost
        THEN IF ~CanEncodeAccountID(DudHostAddressBuf(candidateId)) THEN Threw
             ELSE Event("LinkedDudHostCandidateRemoved",
                        [transaction |-> t.hash, candidateId |-> candidateId,
                         host |-> encodeAccountID(DudHostAddressBuf(candidateId))])
        ELSE Null

ChildHookUpdated(t) ==
    Event("ChildHookUpdated",
          [transaction |-> t.hash, account |-> t.Account,
           candidateId |-> Substr(EventDataOf(t), 0, 64)])

GovernanceModeChanged(t) ==
    LET modeBuf == Slice(FromHex(EventDataOf(t)), 0, 1)
    IN  IF ~CanRead(modeBuf, 0) THEN Threw
        ELSE Event("GovernanceModeChanged",
                   [transaction |-> t.hash, mode |-> ReadUInt8(modeBuf, 0)])

FoundationVoted(t) ==
    LET voteBuf == Slice(FromHex(EventDataOf(t)), 32, 33)
    IN  IF ~CanRead(voteBuf, 0) THEN Threw
        ELSE Event("FoundationVoted",
                   [transaction |-> t.hash, candidateId |-> Substr(EventDataOf(t), 0, 64),
                    vote |-> ReadUInt8(voteBuf, 0)])

DudHostReported(t) ==
    LET candidateId == Substr(EventDataOf(t), 0, 64)
    IN  IF ~CanEncodeAccountID(DudHostAddressBuf(candidateId)) THEN Threw
        ELSE Event("DudHostReported",
                   [transaction |-> t.hash, candidateId |-> candidateId,
                    host |-> encodeAccountID(DudHostAddressBuf(candidateId))])

HostReputationUpdated(t) ==
    LET dataBuf == FromHex(EventDataOf(t))
        hostBuf == Slice(dataBuf, REPUTATION_HOST_ADDRESS_PARAM_OFFSET, 20)
    IN  IF ~CanEncodeAccountID(hostBuf) THEN Threw
        ELSE IF ~CanRead(dataBuf, REPUTATION_VALUE_PARAM_OFFSET) THEN Threw
        ELSE Event("HostReputationUpdated",
                   [transaction |-> t.hash, host |-> encodeAccountID(hostBuf),
                    reputation |-> ReadUInt8(dataBuf, REPUTATION_VALUE_PARAM_OFFSET)])

\* The body of a rule that does not handle a lease payload.
RuleBody(rule, t) ==
    CASE rule = "AcquireError" -> AcquireError(t)
      [] rule = "HostReg" -> HostRegistered(t)
      [] rule = "HostDereg" -> HostDeregistered(t)
      [] rule = "Heartbeat" -> Heartbeat(t)
      [] rule = "ExtendLease" -> ExtendLease(t)
      [] rule = "TerminateLease" -> TerminateLease(t)
      [] rule = "ExtendSuccess" -> ExtendSuccess(t)
      [] rule = "ExtendError" -> ExtendError(t)
      [] rule = "Init" -> Initialized(t)
      [] rule = "HostUpdateInfo" -> HostRegUpdated(t)
      [] rule = "DeadHostPrune" -> DeadHostPrune(t)
      [] rule = "HostRebate" -> HostRebate(t)
      [] rule = "HostTransfer" -> HostTransfer(t)
      [] rule = "CandidatePropose" -> CandidateProposed(t)
      [] rule = "CandidateWithdraw" -> CandidateWithdrawn(t)
      [] rule = "CandidateStatusChange" -> CandidateStatusChange(t)
      [] rule = "LinkedCandidateRemove" -> LinkedCandidateRemove(t)
      [] rule = "HookUpdateRes" -> ChildHookUpdated(t)
      [] rule = "GovernanceModeChange" -> GovernanceModeChanged(t)
      [] rule = "CandidateVote" -> FoundationVoted(t)
      [] rule = "DudHostReport" -> DudHostReported(t)
      [] rule = "HostUpdateReputation" -> HostReputationUpdated(t)
      [] rule = "throw" -> Threw
      [] OTHER -> Null

(***************************************************************************)
(* extractEvernodeEvent: the payload of a lease acquisition. The call      *)
(* suspends at  await EncryptionHelper.decrypt(...)  and goes on when the  *)
(* capability has answered.                                                *)
(***************************************************************************)
\* A variant of the payload handling that does not compare tx.Destination
\* with the client's address.
LeaseStartAnyDestination(t, c) ==
    LET data == t.Memos[1].data
        buf == FromBase64(data)
        prefixBuf == Slice(buf, 0, 1)
        rest == SliceFrom(buf, 1)
    IN  IF t.Memos[1].format = MemoFormats.BASE64
        THEN IF Len(prefixBuf) = 0 THEN [next |-> "throw", payload |-> StringPayload(data)]
             ELSE IF ReadInt8(prefixBuf) = 1
             THEN [next |-> IF c.messagePrivateKey THEN "await" ELSE "nokey",
                   payload |-> StringPayload(ToBase64(rest))]
             ELSE IF CanJsonParse(rest)
             THEN [next |-> "done", payload |-> JsonParse(rest)]
             ELSE [next |-> "throw", payload |-> StringPayload(data)]
        ELSE [next |-> "done", payload |-> StringPayload(data)]

\* A variant of the payload handling that leaves a payload that is not
\* encrypted as the memo has it.
LeaseStartKeepPlain(t, c) ==
    LET data == t.Memos[1].data
        buf == FromBase64(data)
        prefixBuf == Slice(buf, 0, 1)
        rest == SliceFrom(buf, 1)
    IN  IF t.Memos[1].format = MemoFormats.BASE64 /\ t.Destination = c.address
        THEN IF Len(prefixBuf) = 0 THEN [next |-> "throw", payload |-> StringPayload(data)]
             ELSE IF ReadInt8(prefixBuf) = 1
             THEN [next |-> IF c.messagePrivateKey THEN "await" ELSE "nokey",
                   payload |-> StringPayload(ToBase64(rest))]
             ELSE [next |-> "done", payload |-> StringPayload(data)]
        ELSE [next |-> "done", payload |-> StringPayload(data)]

\* A variant of the payload handling that goes on without the capability
\* when the payload is encrypted.
LeaseStartNoAwait(t, c) ==
    LET data == t.Memos[1].data
        buf == FromBase64(data)
        prefixBuf == Slice(buf, 0, 1)
        rest == SliceFrom(buf, 1)
    IN  IF t.Memos[1].format = MemoFormats.BASE64 /\ t.Destination = c.address
        THEN IF Len(prefixBuf) = 0 THEN [next |-> "throw", payload |-> StringPayload(data)]
             ELSE IF ReadInt8(prefixBuf) = 1
             THEN [next |-> "nokey", payload |-> StringPayload(ToBase64(rest))]
             ELSE IF CanJsonParse(rest)
             THEN [next |-> "done", payload |-> JsonParse(rest)]
             ELSE [next |-> "throw", payload |-> StringPayload(data)]
        ELSE [next |-> "done", payload |-> StringPayload(data)]

\* A variant of the payload handling that decodes the payload only when
\* no outcome of an earlier call is at hand.
LeaseStartOnce(t, c) ==
    LET data == t.Memos[1].data
        buf == FromBase64(data)
        prefixBuf == Slice(buf, 0, 1)
        rest == SliceFrom(buf, 1)
    IN  IF /\ t.Memos[1].format = MemoFormats.BASE64
           /\ t.Destination = c.address
           /\ result.status = "none"
        THEN IF Len(prefixBuf) = 0 THEN [next |-> "throw", payload |-> StringPayload(data)]
             ELSE IF ReadInt8(prefixBuf) = 1
             THEN [next |-> IF c.messagePrivateKey THEN "await" ELSE "nokey",
                   payload |-> StringPayload(ToBase64(rest))]
             ELSE IF CanJsonParse(rest)
             THEN [next |-> "done", payload |-> JsonParse(rest)]
             ELSE [next |-> "throw", payload |-> StringPayload(data)]
        ELSE [next |-> "done", payload |-> StringPayload(data)]

\* From  let payload = tx.Memos[0].data  to the await or to the end of the
\* payload handling: where the call stands then, and the payload so far.
LeaseStart(t, c) ==
    LET data == t.Memos[1].data
        buf == FromBase64(data)
        prefixBuf == Slice(buf, 0, 1)
        rest == SliceFrom(buf, 1)
    IN  IF t.Memos[1].format = MemoFormats.BASE64 /\ t.Destination = c.address
        THEN IF Len(prefixBuf) = 0 THEN [next |-> "throw", payload |-> StringPayload(data)]
             ELSE IF ReadInt8(prefixBuf) = 1
             THEN [next |-> IF c.messagePrivateKey THEN "await" ELSE "nokey",
                   payload |-> StringPayload(ToBase64(rest))]
             ELSE IF CanJsonParse(rest)
             THEN [next |-> "done", payload |-> JsonParse(rest)]
             ELSE [next |-> "throw", payload |-> StringPayload(data)]
        ELSE [next |-> "done", payload |-> StringPayload(data)]

\* A variant that drops the payload when the capability answers nothing.
AfterDecryptOrEmpty(p, ok) == IF ok THEN Plaintext(p.v) ELSE StringPayload(<<>>)

\* if (decrypted) payload = decrypted;  the capability answered the
\* plaintext (ok) or nothing.
AfterDecrypt(p, ok) == IF ok THEN Plaintext(p.v) ELSE p

\* tx.URITokenSellOffer?.index and tx.URITokenSellOffer?.Amount?.value
NoOffer == [present |-> FALSE, index |-> 0, value |-> 0]
Offer(index, value) == [present |-> TRUE, index |-> index, value |-> value]

AcquireLease(t, p) ==
    Event("AcquireLease",
          [transaction |-> t.hash, host |-> t.Destination,
           uriTokenId |-> [defined |-> t.URITokenSellOffer.present,
                           v |-> t.URITokenSellOffer.index],
           leaseAmount |-> [defined |-> t.URITokenSellOffer.present,
                            v |-> t.URITokenSellOffer.value],
           acquireRefId |-> t.hash, tenant |-> t.Account, payload |-> p])

AcquireSuccess(t, p) ==
    Event("AcquireSuccess",
          [transaction |-> t.hash, acquireRefId |-> EventDataOf(t), payload |-> p])

LeaseEvent(rule, t, p) ==
    IF rule = "AcquireLease" THEN AcquireLease(t, p) ELSE AcquireSuccess(t, p)

IsLeaseRule(rule) == rule \in {"AcquireLease", "AcquireSuccess"}

(***************************************************************************)
(* _propose: the transaction a candidate proposal sends.                   *)
(***************************************************************************)
\* StateHelpers.getNewHookCandidateId(hashesBuf): a digest of the hashes,
\* tagged NewHook. The digest stands for sha512Half.
getNewHookCandidateId(hashesBuf) ==
    LET digest == [i \in 1..32 |->
                     (hashesBuf[i] + hashesBuf[i + 32] + hashesBuf[i + 64]
                      + hashesBuf[i + 96] + i) % 256]
    IN  ToHex(CopyInto(digest, SubSeq(CandidateIdTag(NewHook), 1, 5), 0))

\* keylets.join(''): the four hook-definition keylets, 34 bytes each.
KeyletsOf(hashesBuf) == [i \in 1..136 |-> (hashesBuf[((i - 1) % 128) + 1] + 7) % 256]

\* A variant that writes the short name one byte early.
ProposeParamBufOverlap(hashesBuf, shortName) ==
    LET uniqueId == getNewHookCandidateId(hashesBuf)
        b0 == Alloc(CANDIDATE_PROPOSE_PARAM_SIZE)
        b1 == CopyInto(b0, hashesBuf, CANDIDATE_PROPOSE_HASHES_PARAM_OFFSET)
        b2 == CopyInto(b1, KeyletsOf(hashesBuf), CANDIDATE_PROPOSE_KEYLETS_PARAM_OFFSET)
        b3 == CopyInto(b2, FromHex(uniqueId), CANDIDATE_PROPOSE_UNIQUE_ID_PARAM_OFFSET)
    IN  CopyInto(b3, Substr(shortName, 0, 20), CANDIDATE_PROPOSE_SHORT_NAME_PARAM_OFFSET - 1)

\* paramBuf as _propose fills it.
ProposeParamBuf(hashesBuf, shortName) ==
    LET uniqueId == getNewHookCandidateId(hashesBuf)
        b0 == Alloc(CANDIDATE_PROPOSE_PARAM_SIZE)
        b1 == CopyInto(b0, hashesBuf, CANDIDATE_PROPOSE_HASHES_PARAM_OFFSET)
        b2 == CopyInto(b1, KeyletsOf(hashesBuf), CANDIDATE_PROPOSE_KEYLETS_PARAM_OFFSET)
        b3 == CopyInto(b2, FromHex(uniqueId), CANDIDATE_PROPOSE_UNIQUE_ID_PARAM_OFFSET)
    IN  CopyInto(b3, Substr(shortName, 0, 20), CANDIDATE_PROPOSE_SHORT_NAME_PARAM_OFFSET)

\* hookParams of the payment _propose makes.
ProposeHookParams(hashesBuf, shortName) ==
    LET paramBuf == ProposeParamBuf(hashesBuf, shortName)
    IN  << TypeParam(EventTypes.CANDIDATE_PROPOSE),
           DataParam(ToHex(Slice(paramBuf, 0, MAX_HOOK_PARAM_SIZE))),
           Data2Param(ToHex(SliceFrom(paramBuf, MAX_HOOK_PARAM_SIZE))) >>

(***************************************************************************)
(* The transactions the model classifies.                                  *)
(***************************************************************************)
Fill(n, f) == [i \in 1..n |-> (17 * f + i) % 256]
Addr(k) == encodeAccountID(Fill(20, k))
Addresses == {Addr(k) : k \in 1..MaxAddr}
OwnAddress == Addr(1)
Fills == 1..MaxFill
StatusBytes == 1..MaxStatus

Tx(type, account, destination, params, memos) ==
    [hash |-> 1, TransactionType |-> type, Account |-> account, Destination |-> destination,
     HookParameters |-> params, Memos |-> memos,
     Amount |-> Amount("EVR", 5), DeliveredAmount |-> NoAmount, partial |-> FALSE,
     URITokenSellOffer |-> NoOffer, NFTokenSellOffer |-> NoOffer,
     NFTokenBuyOffer |-> NoOffer, Flags |-> 0]

NoTx == Tx("", Addr(1), Addr(1), <<>>, <<>>)

\* Candidate ids: of a dud host, the piloted-mode id, of a new hook.
CandidateIds ==
    {getDudHostCandidateId(a) : a \in Addresses}
    \cup {getPilotedModeCandidateId}
    \cup {getNewHookCandidateId(Fill(128, f)) : f \in Fills}

\* Event data: nothing, one byte, an account id, an account id and a
\* reputation, a candidate id, a candidate id and a status or vote, the
\* 53 bytes of a deregistration by the reputation account.
DataInputs ==
    {<<>>}
    \cup {ToHex(<<b>>) : b \in StatusBytes}
    \cup {ToHex(a.accountId) : a \in Addresses}
    \cup {ToHex(a.accountId \o <<b>>) : a \in Addresses, b \in StatusBytes}
    \cup CandidateIds
    \cup {id \o ToHex(<<b>>) : id \in CandidateIds, b \in StatusBytes}
    \cup {ToHex(a.accountId \o Fill(32, f) \o <<0>>) : a \in Addresses, f \in Fills}

\* The event types of evernode-common and a name that is none of them.
EventTypeInputs == {EventTypes[k] : k \in DOMAIN EventTypes} \cup {"evnUnknown"}

\* Hook-parameter lists: none, a type alone, data alone, a type and data.
ParamInputs ==
    {<<>>}
    \cup {<<TypeParam(e)>> : e \in EventTypeInputs}
    \cup {<<DataParam(d)>> : d \in DataInputs}
    \cup {<<TypeParam(e), DataParam(d)>> : e \in EventTypeInputs, d \in DataInputs}

\* The text of a JSON error memo, {"reason":<n>}.
ReasonText(n) == ReasonKey \o <<48 + n, 125>>

\* Memo lists that go with an event type: none, a hex memo of the type
\* (4 bytes, 2 bytes, no data), a JSON memo (an error object, no JSON),
\* a memo of another type.
MemoInputs(e) ==
    {<<>>,
     <<Memo(e, MemoFormats.HEX, ToHex(<<0, 0, 1, 2>>))>>,
     <<Memo(e, MemoFormats.HEX, ToHex(<<1, 2>>))>>,
     <<Memo(e, MemoFormats.HEX, <<>>)>>,
     <<Memo(e, MemoFormats.JSON, ReasonText(3))>>,
     <<Memo(e, MemoFormats.JSON, <<123>>)>>,
     <<Memo(EventTypes.REFUND, MemoFormats.HEX, ToHex(<<0, 0, 1, 2>>))>>}

GenericTxs ==
    {Tx(PAYMENT, Addr(MaxAddr), OwnAddress, ps, ms) :
        ps \in ParamInputs,
        ms \in UNION {MemoInputs(e) :
                        e \in {EventTypes.ACQUIRE_ERROR, EventTypes.EXTEND_SUCCESS,
                               EventTypes.EXTEND_ERROR}}}

\* Payments with and without an amount, partial or not.
ExtendTxs ==
    {[Tx(PAYMENT, Addr(MaxAddr), OwnAddress,
         <<TypeParam(EventTypes.EXTEND_LEASE), DataParam(ToHex(Fill(32, 1)))>>, <<>>)
        EXCEPT !.Amount = a, !.DeliveredAmount = d, !.partial = p] :
        a \in {NoAmount, Amount("EVR", 5)}, d \in {NoAmount, Amount("EVR", 4)},
        p \in BOOLEAN}

\* Lease payloads: a format flag and then a JSON text, a text that is no
\* JSON, or a ciphertext; and the empty string.
PayloadBodies == {<<55>>, <<123, 125>>, <<123>>, Fill(5, 9)}
PayloadInputs ==
    {<<>>} \cup {ToBase64(<<flag>> \o body) : flag \in 0..MaxFlag, body \in PayloadBodies}

LeaseMemoInputs ==
    {<<>>}
    \cup {<<Memo(e, f, d)>> :
            e \in {EventTypes.ACQUIRE_LEASE, EventTypes.ACQUIRE_SUCCESS},
            f \in {MemoFormats.BASE64, MemoFormats.TEXT},
            d \in PayloadInputs}

LeaseTxs ==
    {[Tx(ty, Addr(MaxAddr), dest, ps, ms) EXCEPT !.URITokenSellOffer = o] :
        ty \in {URI_TOKEN_BUY_OFFER, PAYMENT},
        dest \in Addresses,
        ps \in {<<TypeParam(e), DataParam(ToHex(Fill(32, 2)))>> :
                   e \in {EventTypes.ACQUIRE_LEASE, EventTypes.ACQUIRE_SUCCESS}}
                \cup {<<TypeParam(EventTypes.ACQUIRE_SUCCESS)>>},
        ms \in LeaseMemoInputs,
        o \in {NoOffer, Offer(7, 3)}}

\* _reportDudHost(hostAddress): the hook parameters of the payment it makes.
ReportDudHostHookParams(hostAddress) ==
    <<TypeParam(EventTypes.DUD_HOST_REPORT), DataParam(getDudHostCandidateId(hostAddress))>>

\* Short names of a proposal: empty, short, longer than the 20 bytes kept.
ShortNames == {<<>>, <<97, 98>>, Fill(22, 3)}

ProposeTxs ==
    {Tx(PAYMENT, a, Addr(MaxAddr), ProposeHookParams(Fill(128, f), n), <<>>) :
        a \in Addresses, f \in Fills, n \in ShortNames}

TxInputs == GenericTxs \cup ExtendTxs \cup LeaseTxs \cup ProposeTxs

Clients == [address : {OwnAddress}, messagePrivateKey : BOOLEAN]

(***************************************************************************)
(* The memo-based extractEvernodeEvent of the older base client. Memo      *)
(* types carry the names the event types carry now; the candidate types    *)
(* GovernanceModeChanged and CandidateProposed of that version are the     *)
(* types PilotedMode and NewHook.                                          *)
(***************************************************************************)
\* MemoTypes of the older evernode-common: pairwise different names.
MemoTypes ==
    [ACQUIRE_LEASE |-> "evnAcquireLease",
     ACQUIRE_SUCCESS |-> "evnAcquireSuccess",
     ACQUIRE_ERROR |-> "evnAcquireError",
     ACQUIRE_REF |-> "evnAcquireRef",
     HOST_REG |-> "evnHostReg",
     HOST_DEREG |-> "evnHostDereg",
     HOST_UPDATE_INFO |-> "evnHostUpdateReg",
     HEARTBEAT |-> "evnHeartbeat",
     HOST_TRANSFER |-> "evnTransfer",
     EXTEND_LEASE |-> "evnExtendLease",
     EXTEND_SUCCESS |-> "evnExtendSuccess",
     EXTEND_ERROR |-> "evnExtendError",
     EXTEND_REF |-> "evnExtendRef",
     INIT |-> "evnInitialize",
     REFUND |-> "evnRefund",
     DEAD_HOST_PRUNE |-> "evnDeadHostPrune",
     HOST_REBATE |-> "evnHostRebate",
     CANDIDATE_PROPOSE |-> "evnCandidatePropose",
     CANDIDATE_PROPOSE_REF |-> "evnCandidateProposeRef",
     CANDIDATE_WITHDRAW |-> "evnCandidateWithdraw",
     CANDIDATE_VOTE |-> "evnCandidateVote",
     CANDIDATE_STATUS_CHANGE |-> "evnCandidateStatusChange",
     DUD_HOST_REPORT |-> "evnDudHostReport",
     HOOK_UPDATE_RES |-> "evnHookUpdateRes",
     GOVERNANCE_MODE_CHANGE |-> "evnGovernanceModeChange",
     HOST_POST_DEREG |-> "evnHostPostDereg",
     REDEEM |-> "evnRedeem",
     REDEEM_REF |-> "evnRedeemRef",
     REDEEM_RESP |-> "evnRedeemResp",
     AUDIT_REQ |-> "evnAuditRequest",
     AUDIT_SUCCESS |-> "evnAuditSuccess"]

NFT_ACCEPT_OFFER == "NFTokenAcceptOffer"

IsLegacyAcquireLease(t) ==
    AllOf(<<B(t.TransactionType = NFT_ACCEPT_OFFER), B(t.NFTokenSellOffer.present),
            HasMemos(t, 1), MemoTypeIs(t, 1, MemoTypes.ACQUIRE_LEASE),
            MemoFormatIs(t, 1, MemoFormats.BASE64), MemoHasData(t, 1)>>)
IsLegacyHostPostDereg(t) ==
    AllOf(<<B(t.TransactionType = NFT_ACCEPT_OFFER), B(t.NFTokenBuyOffer.present),
            HasMemos(t, 1), MemoTypeIs(t, 1, MemoTypes.HOST_POST_DEREG),
            MemoFormatIs(t, 1, MemoFormats.HEX), MemoHasData(t, 1)>>)
\* Memos[0] of a type with data, Memos[1] of a reference type with data.
IsLegacyPair(t, type, ref) ==
    AllOf(<<HasMemos(t, 2), MemoTypeIs(t, 1, type), MemoHasData(t, 1),
            MemoTypeIs(t, 2, ref), MemoHasData(t, 2)>>)
\* The same with both memos in hex.
IsLegacyHexPair(t, type, ref) ==
    AllOf(<<HasMemos(t, 2), MemoTypeIs(t, 1, type), MemoFormatIs(t, 1, MemoFormats.HEX),
            MemoHasData(t, 1), MemoTypeIs(t, 2, ref), MemoFormatIs(t, 2, MemoFormats.HEX),
            MemoHasData(t, 2)>>)
\* Memos[0] of a type, in hex, with data.
IsLegacyHex(t, type) ==
    AllOf(<<HasMemos(t, 1), MemoTypeIs(t, 1, type), MemoFormatIs(t, 1, MemoFormats.HEX),
            MemoHasData(t, 1)>>)
\* Memos[0] of a type, whatever it holds.
IsLegacyType(t, type) == AllOf(<<HasMemos(t, 1), MemoTypeIs(t, 1, type)>>)

LegacyChain(t) ==
    << <<"AcquireLease", IsLegacyAcquireLease(t)>>,
       <<"HostPostDereg", IsLegacyHostPostDereg(t)>>,
       <<"AcquireSuccess", IsLegacyPair(t, MemoTypes.ACQUIRE_SUCCESS, MemoTypes.ACQUIRE_REF)>>,
       <<"AcquireError", IsLegacyPair(t, MemoTypes.ACQUIRE_ERROR, MemoTypes.ACQUIRE_REF)>>,
       <<"HostReg", IsLegacyHex(t, MemoTypes.HOST_REG)>>,
       <<"HostDereg", IsLegacyType(t, MemoTypes.HOST_DEREG)>>,
       <<"Heartbeat", IsLegacyType(t, MemoTypes.HEARTBEAT)>>,
       <<"ExtendLease", IsLegacyHex(t, MemoTypes.EXTEND_LEASE)>>,
       <<"ExtendSuccess", IsLegacyHexPair(t, MemoTypes.EXTEND_SUCCESS, MemoTypes.EXTEND_REF)>>,
       <<"ExtendError", IsLegacyPair(t, MemoTypes.EXTEND_ERROR, MemoTypes.EXTEND_REF)>>,
       <<"Init", IsLegacyHex(t, MemoTypes.INIT)>>,
       <<"HostUpdateInfo", IsLegacyHex(t, MemoTypes.HOST_UPDATE_INFO)>>,
       <<"DeadHostPrune", IsLegacyHex(t, MemoTypes.DEAD_HOST_PRUNE)>>,
       <<"HostRebate", IsLegacyType(t, MemoTypes.HOST_REBATE)>>,
       <<"HostTransfer", IsLegacyHex(t, MemoTypes.HOST_TRANSFER)>>,
       <<"CandidatePropose",
         IsLegacyHexPair(t, MemoTypes.CANDIDATE_PROPOSE, MemoTypes.CANDIDATE_PROPOSE_REF)>>,
       <<"CandidateWithdraw", IsLegacyHex(t, MemoTypes.CANDIDATE_WITHDRAW)>>,
       <<"CandidateStatusChange", IsLegacyHex(t, MemoTypes.CANDIDATE_STATUS_CHANGE)>>,
       <<"HookUpdateRes", IsLegacyHex(t, MemoTypes.HOOK_UPDATE_RES)>>,
       <<"GovernanceModeChange", IsLegacyHex(t, MemoTypes.GOVERNANCE_MODE_CHANGE)>>,
       <<"CandidateVote", IsLegacyHex(t, MemoTypes.CANDIDATE_VOTE)>>,
       <<"DudHostReport", IsLegacyHex(t, MemoTypes.DUD_HOST_REPORT)>> >>

\* The error of an error memo: its text, or the 'reason' member of the
\* memo parsed as JSON.
LegacyError(name, refKey, t) ==
    LET error == t.Memos[1].data
    IN  IF t.Memos[1].format = MemoFormats.JSON
        THEN IF ~CanJsonParse(error) THEN Threw
             ELSE Event(name, [transaction |-> t.hash, ref |-> refKey,
                               refId |-> t.Memos[2].data,
                               reason |-> ReasonOf(JsonParse(error))])
        ELSE Event(name, [transaction |-> t.hash, ref |-> refKey,
                          refId |-> t.Memos[2].data, reason |-> StringPayload(error)])

\* voteInfo reads Memos[1].data, which throws when there is one memo only,
\* and then the vote byte at offset 32 of Memos[0].data.
LegacyHeartbeat(t) ==
    LET data == t.Memos[1].data
        voteBuf == Slice(FromHex(data), 32, 33)
    IN  IF Truthy(data)
        THEN IF Len(t.Memos) < 2 THEN Threw
             ELSE IF ~CanRead(voteBuf, 0) THEN Threw
             ELSE Event("Heartbeat",
                        [transaction |-> t.hash, host |-> t.Account,
                         voteInfo |-> [candidateId |-> Substr(t.Memos[2].data, 0, 64),
                                       vote |-> ReadUInt8(voteBuf, 0)]])
        ELSE Event("Heartbeat", [transaction |-> t.hash, host |-> t.Account])

LegacyExtendLease(t) ==
    IF ~t.Amount.present THEN Threw
    ELSE Event("ExtendLease",
               [transaction |-> t.hash, extendRefId |-> t.hash, tenant |-> t.Account,
                currency |-> t.Amount.currency, payment |-> t.Amount.value,
                nfTokenId |-> t.Memos[1].data])

LegacyExtendSuccess(t) ==
    LET extendResBuf == FromHex(t.Memos[1].data)
    IN  IF Len(extendResBuf) < 4 THEN Threw
        ELSE Event("ExtendSuccess",
                   [transaction |-> t.hash, extendRefId |-> t.Memos[2].data,
                    expiryMoment |-> ReadUInt32BE(extendResBuf)])

\* codec.encodeAccountID of the whole memo.
LegacyAddressEvent(name, key, t) ==
    LET addrsBuf == FromHex(t.Memos[1].data)
    IN  IF ~CanEncodeAccountID(addrsBuf) THEN Threw
        ELSE Event(name, [transaction |-> t.hash, key |-> key,
                          address |-> encodeAccountID(addrsBuf)])

\* An event that carries the first 32 bytes of a memo as the candidate id.
LegacyCandidateEvent(name, t, memo) ==
    Event(name, [transaction |-> t.hash, account |-> t.Account,
                 candidateId |-> Substr(t.Memos[memo].data, 0, 64)])

\* For a dud host the rule hands a buffer to codec.decodeAccountID, which
\* takes an address string and throws for anything else.
LegacyCandidateStatusChange(t) ==
    LET candidateId == Substr(t.Memos[1].data, 0, 64)
        candidateType == getCandidateType(candidateId)
    IN  IF candidateType = DudHost THEN Threw
        ELSE IF candidateType = PilotedMode
        THEN Event("FallbackToPiloted", [transaction |-> t.hash, candidateId |-> candidateId])
        ELSE IF candidateType = NewHook
        THEN Event("CandidateElected", [transaction |-> t.hash, candidateId |-> candidateId])
        ELSE Null

LegacyGovernanceModeChanged(t) ==
    LET modeBuf == Slice(FromHex(t.Memos[1].data), 0, 1)
    IN  IF ~CanRead(modeBuf, 0) THEN Threw
        ELSE Event("GovernanceModeChanged",
                   [transaction |-> t.hash, mode |-> ReadUInt8(modeBuf, 0)])

LegacyFoundationVoted(t) ==
    LET voteBuf == Slice(FromHex(t.Memos[1].data), 32, 33)
    IN  IF ~CanRead(voteBuf, 0) THEN Threw
        ELSE Event("FoundationVoted",
                   [transaction |-> t.hash, candidateId |-> Substr(t.Memos[1].data, 0, 64),
                    vote |-> ReadUInt8(voteBuf, 0)])

LegacyRuleBody(rule, t) ==
    CASE rule = "HostPostDereg" ->
           Event("HostPostDeregistered",
                 [transaction |-> t.hash, nfTokenId |-> t.NFTokenBuyOffer.index,
                  flags |-> t.Flags, hash |-> t.hash])
      [] rule = "AcquireError" -> LegacyError("AcquireError", "acquireRefId", t)
      [] rule = "HostReg" -> HostRegistered(t)
      [] rule = "HostDereg" ->
           Event("HostDeregistered", [transaction |-> t.hash, host |-> t.Account])
      [] rule = "Heartbeat" -> LegacyHeartbeat(t)
      [] rule = "ExtendLease" -> LegacyExtendLease(t)
      [] rule = "ExtendSuccess" -> LegacyExtendSuccess(t)
      [] rule = "ExtendError" -> LegacyError("ExtendError", "extendRefId", t)
      [] rule = "Init" -> Initialized(t)
      [] rule = "HostUpdateInfo" -> HostRegUpdated(t)
      [] rule = "DeadHostPrune" -> LegacyAddressEvent("DeadHostPrune", "host", t)
      [] rule = "HostRebate" -> HostRebate(t)
      [] rule = "HostTransfer" -> LegacyAddressEvent("HostTransfer", "transferee", t)
      [] rule = "CandidatePropose" -> LegacyCandidateEvent("CandidateProposed", t, 2)
      [] rule = "CandidateWithdraw" -> LegacyCandidateEvent("CandidateWithdrew", t, 1)
      [] rule = "CandidateStatusChange" -> LegacyCandidateStatusChange(t)
      [] rule = "HookUpdateRes" -> LegacyCandidateEvent("ChildHookUpdated", t, 1)
      [] rule = "GovernanceModeChange" -> LegacyGovernanceModeChanged(t)
      [] rule = "CandidateVote" -> LegacyFoundationVoted(t)
      [] rule = "DudHostReport" -> LegacyAddressEvent("DudHostReported", "transferee", t)
      [] rule = "throw" -> Threw
      [] OTHER -> Null

\* The payload of a lease acquisition: decrypted when this account is the
\* destination (and, for AcquireSuccess, the memo is base64); the older
\* payload has no format flag.
LegacyLeaseStart(rule, t, c) ==
    LET mine == IF rule = "AcquireLease" THEN t.Destination = c.address
                ELSE t.Memos[1].format = MemoFormats.BASE64 /\ t.Destination = c.address
    IN  [next |-> IF mine /\ c.messagePrivateKey THEN "await" ELSE "done",
         payload |-> StringPayload(t.Memos[1].data)]

LegacyLeaseEvent(rule, t, p) ==
    IF rule = "AcquireLease"
    THEN Event("AcquireLease",
               [transaction |-> t.hash, host |-> t.Destination,
                nfTokenId |-> [defined |-> t.NFTokenSellOffer.present,
                               v |-> t.NFTokenSellOffer.index],
                leaseAmount |-> [defined |-> t.NFTokenSellOffer.present,
                                 v |-> t.NFTokenSellOffer.value],
                acquireRefId |-> t.hash, tenant |-> t.Account, payload |-> p])
    ELSE Event("AcquireSuccess",
               [transaction |-> t.hash, acquireRefId |-> t.Memos[2].data, payload |-> p])

(***************************************************************************)
(* extractEvernodeHookEvent, the classifier of the first hook client.      *)
(***************************************************************************)
\* MemoFormats.BINARY of that version.
FORMAT_BINARY == "binary"

\* Memos[0] of a type, in a format, with data.
IsHookMemo(t, format, type) ==
    AllOf(<<HasMemos(t, 1), MemoFormatIs(t, 1, format), MemoTypeIs(t, 1, type),
            MemoHasData(t, 1)>>)
IsRedeemResponse(t) ==
    AllOf(<<HasMemos(t, 2), MemoFormatIs(t, 1, FORMAT_BINARY),
            MemoTypeIs(t, 1, MemoTypes.REDEEM_REF),
            MemoHasData(t, 1), MemoTypeIs(t, 2, MemoTypes.REDEEM_RESP), MemoHasData(t, 2)>>)

HookChain(t) ==
    << <<"Redeem", IsHookMemo(t, FORMAT_BINARY, MemoTypes.REDEEM)>>,
       <<"RedeemResponse", IsRedeemResponse(t)>>,
       <<"Refund", IsHookMemo(t, FORMAT_BINARY, MemoTypes.REFUND)>>,
       <<"HostReg", IsHookMemo(t, MemoFormats.TEXT, MemoTypes.HOST_REG)>>,
       <<"HostDereg", IsLegacyType(t, MemoTypes.HOST_DEREG)>>,
       <<"AuditRequest", IsHookMemo(t, FORMAT_BINARY, MemoTypes.AUDIT_REQ)>>,
       <<"AuditSuccess", IsHookMemo(t, FORMAT_BINARY, MemoTypes.AUDIT_SUCCESS)>> >>

\* data.split(';')[k]: the k-th part (from 0) of the text, undefined when
\* the text has fewer parts.
SplitPart(text, k) ==
    LET seps == {i \in 1..Len(text) : text[i] = 59}
        Cut(n) == IF n = 0 THEN 0
                  ELSE IF n > Cardinality(seps) THEN Len(text) + 1
                  ELSE CHOOSE i \in seps : Cardinality({j \in seps : j <= i}) = n
    IN  IF k > Cardinality(seps) THEN [defined |-> FALSE, v |-> <<>>]
        ELSE [defined |-> TRUE, v |-> SubSeq(text, Cut(k) + 1, Cut(k + 1) - 1)]

RedeemResponse(t) ==
    LET payload0 == t.Memos[2].data
    IN  IF t.Memos[2].format = MemoFormats.JSON
        THEN IF ~CanJsonParse(payload0) THEN Threw
             ELSE Event("RedeemError",
                        [transaction |-> t.hash, redeemTxHash |-> t.Memos[1].data,
                         reason |-> ReasonOf(JsonParse(payload0))])
        ELSE Event("RedeemSuccess",
                   [transaction |-> t.hash, redeemTxHash |-> t.Memos[1].data,
                    payload |-> payload0])

HookRuleBody(rule, t) ==
    CASE rule = "Redeem" ->
           IF ~t.Amount.present THEN Threw
           ELSE Event("Redeem",
                      [transaction |-> t.hash, user |-> t.Account, host |-> t.Amount.issuer,
                       token |-> t.Amount.currency, moments |-> t.Amount.value,
                       payload |-> t.Memos[1].data])
      [] rule = "RedeemResponse" -> RedeemResponse(t)
      [] rule = "Refund" ->
           Event("RefundRequest", [transaction |-> t.hash, redeemTxHash |-> t.Memos[1].data])
      [] rule = "HostReg" ->
           Event("HostRegistered",
                 [transaction |-> t.hash, host |-> t.Account,
                  token |-> SplitPart(t.Memos[1].data, 0),
                  instanceSize |-> SplitPart(t.Memos[1].data, 1),
                  location |-> SplitPart(t.Memos[1].data, 2)])
      [] rule = "HostDereg" ->
           Event("HostDeregistered", [transaction |-> t.hash, host |-> t.Account])
      [] rule = "AuditRequest" ->
           Event("AuditRequest", [transaction |-> t.hash, auditor |-> t.Account])
      [] rule = "AuditSuccess" ->
           Event("AuditSuccess", [transaction |-> t.hash, auditor |-> t.Account])
      [] rule = "throw" -> Threw
      [] OTHER -> Null

\* extractEvernodeHookEvent(tx): nothing for a transaction without memos.
ExtractHookEvent(t) ==
    IF Len(t.Memos) = 0 THEN Null ELSE HookRuleBody(FirstRule(HookChain(t)), t)

(***************************************************************************)
(* The transactions the older classifiers are given.                       *)
(***************************************************************************)
LegacyMemoTypes == {MemoTypes[k] : k \in DOMAIN MemoTypes}

\* What a hex memo holds: nothing, one byte, four bytes, an account id, a
\* candidate id, a candidate id and a vote.
LegacyData ==
    {<<>>, ToHex(<<0, 0, 1, 2>>)}
    \cup {ToHex(<<b>>) : b \in StatusBytes}
    \cup {ToHex(a.accountId) : a \in Addresses}
    \cup CandidateIds
    \cup {id \o ToHex(<<b>>) : id \in CandidateIds, b \in StatusBytes}

LegacyFirstMemos ==
    {Memo(ty, MemoFormats.HEX, d) : ty \in LegacyMemoTypes, d \in LegacyData}
    \cup {Memo(ty, MemoFormats.JSON, x) :
            ty \in {MemoTypes.ACQUIRE_ERROR, MemoTypes.EXTEND_ERROR},
            x \in {ReasonText(3), <<123>>}}

\* The reference memo that follows: of the three reference types, with and
\* without data.
LegacyRefMemos ==
    {Memo(ty, MemoFormats.HEX, d) :
        ty \in {MemoTypes.ACQUIRE_REF, MemoTypes.EXTEND_REF, MemoTypes.CANDIDATE_PROPOSE_REF},
        d \in {<<>>, ToHex(Fill(32, 2))}}

LegacyMemoInputs ==
    {<<>>}
    \cup {<<m>> : m \in LegacyFirstMemos}
    \cup {<<m, r>> : m \in LegacyFirstMemos, r \in LegacyRefMemos}

LegacyGenericTxs ==
    {[Tx(PAYMENT, Addr(MaxAddr), OwnAddress, <<>>, ms) EXCEPT !.Amount = a] :
        ms \in LegacyMemoInputs, a \in {Amount("EVR", 5)}}
    \cup {[Tx(PAYMENT, Addr(MaxAddr), OwnAddress, <<>>,
              <<Memo(MemoTypes.EXTEND_LEASE, MemoFormats.HEX, ToHex(Fill(32, 1)))>>)
             EXCEPT !.Amount = NoAmount]}

\* Offer acceptances and payments that carry a lease payload or the memo of
\* a finished deregistration.
LegacyOfferTxs ==
    {[Tx(ty, Addr(MaxAddr), dest, <<>>, ms)
        EXCEPT !.NFTokenSellOffer = so, !.NFTokenBuyOffer = bo] :
        ty \in {NFT_ACCEPT_OFFER, PAYMENT},
        dest \in Addresses,
        so \in {NoOffer, Offer(7, 3)},
        bo \in {NoOffer, Offer(8, 0)},
        ms \in {<<Memo(MemoTypes.ACQUIRE_LEASE, f, ToBase64(Fill(5, 9)))>> :
                   f \in {MemoFormats.BASE64, MemoFormats.TEXT}}
               \cup {<<Memo(MemoTypes.ACQUIRE_SUCCESS, f, ToBase64(Fill(5, 9))),
                       Memo(MemoTypes.ACQUIRE_REF, MemoFormats.HEX, ToHex(Fill(32, 2)))>> :
                       f \in {MemoFormats.BASE64, MemoFormats.TEXT}}
               \cup {<<Memo(MemoTypes.HOST_POST_DEREG, MemoFormats.HEX, d)>> :
                       d \in {<<>>, ToHex(<<1>>)}}}

LegacyTxInputs == LegacyGenericTxs \cup LegacyOfferTxs

\* Texts of the first hook client's memos: "a;b;c", "a", nothing.
HookTexts == {<<97, 59, 98, 59, 99>>, <<97>>, <<>>}

HookMemoInputs ==
    {<<>>}
    \cup {<<Memo(ty, f, d)>> :
            ty \in {MemoTypes.REDEEM, MemoTypes.REDEEM_REF, MemoTypes.REFUND,
                    MemoTypes.HOST_REG, MemoTypes.HOST_DEREG, MemoTypes.AUDIT_REQ,
                    MemoTypes.AUDIT_SUCCESS, MemoTypes.HEARTBEAT},
            f \in {FORMAT_BINARY, MemoFormats.TEXT},
            d \in HookTexts}
    \cup {<<Memo(MemoTypes.REDEEM_REF, f, <<97>>), Memo(ty, g, d)>> :
            f \in {FORMAT_BINARY, MemoFormats.TEXT},
            ty \in {MemoTypes.REDEEM_RESP, MemoTypes.REFUND},
            g \in {FORMAT_BINARY, MemoFormats.JSON},
            d \in {<<>>, <<123>>, ReasonText(3)}}

HookTxInputs ==
    {[Tx(PAYMENT, a, OwnAddress, <<>>, ms) EXCEPT !.Amount = am] :
        a \in Addresses, ms \in HookMemoInputs, am \in {NoAmount, Amount("HTK", 2)}}

(***************************************************************************)
(* The calls of extractEvernodeEvent.                                      *)
(***************************************************************************)
NoResult == [status |-> "none"]
NoPayload == StringPayload(<<>>)

\* The rule the chain selects for the transaction in hand.
RuleOf(t) == FirstRule(Chain(t))

\* extractEvernodeEvent(t) of the current client, from its start up to its
\* return or to the await of decrypt.
Classify(t) ==
    /\ gen' = "current"
    /\ tx' = t
    /\ LET rule == RuleOf(t)
           s == LeaseStart(t, client)
       IN  IF IsLeaseRule(rule)
           THEN /\ payload' = s.payload
                /\ pc' = IF s.next = "await" THEN "decrypt" ELSE "done"
                /\ decryptCalls' = IF s.next = "await" THEN 1 ELSE 0
                /\ decrypted' = IF s.next = "nokey" THEN "null" ELSE "unset"
                /\ result' = IF s.next = "await" THEN NoResult
                             ELSE IF s.next = "throw" THEN Threw
                             ELSE LeaseEvent(rule, t, s.payload)
           ELSE /\ payload' = NoPayload
                /\ pc' = "done"
                /\ decryptCalls' = 0
                /\ decrypted' = "unset"
                /\ result' = RuleBody(rule, t)

\* A call of extractEvernodeEvent with a transaction from the ledger.
ExtractEvernodeEvent ==
    /\ pc = "idle"
    /\ \E t \in TxInputs : Classify(t)
    /\ UNCHANGED <<client, read, first>>
    /\ UNCHANGED momentVars
    /\ UNCHANGED <<lifecycleVars, handlerVars>>

\* No first call on record.
NoFirst ==
    [present |-> FALSE, tx |-> NoTx, client |-> [address |-> OwnAddress,
                                                 messagePrivateKey |-> FALSE],
     result |-> NoResult, decrypted |-> "unset"]

\* The caller hands the transaction of the call that has just returned to
\* extractEvernodeEvent once more.
Replay ==
    /\ pc = "done"
    /\ gen = "current"
    /\ ~first.present
    /\ first' = [present |-> TRUE, tx |-> tx, client |-> client, result |-> result,
                 decrypted |-> decrypted]
    /\ Classify(tx)
    /\ UNCHANGED <<client, read>>
    /\ UNCHANGED momentVars
    /\ UNCHANGED <<lifecycleVars, handlerVars>>

\* extractEvernodeEvent(tx) of the older client, likewise.
ExtractLegacyEvent ==
    /\ pc = "idle"
    /\ \E t \in LegacyTxInputs :
        /\ gen' = "legacy"
        /\ tx' = t
        /\ LET rule == FirstRule(LegacyChain(t))
               s == LegacyLeaseStart(rule, t, client)
           IN  IF IsLeaseRule(rule)
               THEN /\ payload' = s.payload
                    /\ pc' = IF s.next = "await" THEN "decrypt" ELSE "done"
                    /\ decryptCalls' = IF s.next = "await" THEN 1 ELSE 0
                    /\ decrypted' = "unset"
                    /\ result' = IF s.next = "await" THEN NoResult
                                 ELSE LegacyLeaseEvent(rule, t, s.payload)
               ELSE /\ payload' = NoPayload
                    /\ pc' = "done"
                    /\ decryptCalls' = 0
                    /\ decrypted' = "unset"
                    /\ result' = LegacyRuleBody(rule, t)
    /\ UNCHANGED <<client, read, first>>
    /\ UNCHANGED momentVars
    /\ UNCHANGED <<lifecycleVars, handlerVars>>

\* extractEvernodeHookEvent(tx): it never awaits.
ExtractEvernodeHookEvent ==
    /\ pc = "idle"
    /\ \E t \in HookTxInputs :
        /\ gen' = "hook"
        /\ tx' = t
        /\ result' = ExtractHookEvent(t)
    /\ pc' = "done"
    /\ payload' = NoPayload
    /\ decryptCalls' = 0
    /\ decrypted' = "unset"
    /\ UNCHANGED <<client, read, first>>
    /\ UNCHANGED momentVars
    /\ UNCHANGED <<lifecycleVars, handlerVars>>

\* EncryptionHelper.decrypt answers, and the call returns its event.
DecryptResolve ==
    /\ pc = "decrypt"
    /\ \E ok \in BOOLEAN :
        /\ decrypted' = IF ok THEN "value" ELSE "null"
        /\ payload' = AfterDecrypt(payload, ok)
        /\ result' = IF gen = "current"
                     THEN LeaseEvent(RuleOf(tx), tx, AfterDecrypt(payload, ok))
                     ELSE LegacyLeaseEvent(FirstRule(LegacyChain(tx)), tx,
                                           AfterDecrypt(payload, ok))
    /\ pc' = "done"
    /\ UNCHANGED <<client, gen, tx, decryptCalls, read, first>>
    /\ UNCHANGED momentVars
    /\ UNCHANGED <<lifecycleVars, handlerVars>>

\* The caller has taken the result; the next call may start.
Return ==
    /\ pc = "done"
    /\ pc' = "idle"
    /\ tx' = NoTx
    /\ payload' = NoPayload
    /\ result' = NoResult
    /\ decryptCalls' = 0
    /\ decrypted' = "unset"
    /\ gen' = "none"
    /\ first' = NoFirst
    /\ UNCHANGED <<client, read>>
    /\ UNCHANGED momentVars
    /\ UNCHANGED <<lifecycleVars, handlerVars>>

(***************************************************************************)
(* The ledger reads of the client. A read awaits the transport once for    *)
(* every entry it needs; the transport answers an entry (with or without   *)
(* state data) or raises an error, 'entryNotFound' or another.             *)
(***************************************************************************)
\* buf.readUInt16LE(off) and Number(buf.readBigUInt64LE(off)): the bytes
\* from the least significant on. Both throw a RangeError unless the bytes
\* are all there.
ReadUInt16BE(buf, off) == (buf[off + 1] * 256) + buf[off + 2]
ReadUInt16LE(buf, off) == buf[off + 1] + (256 * buf[off + 2])

RECURSIVE ReadUIntLE(_, _, _)
ReadUIntLE(buf, off, n) ==
    IF n = 0 THEN 0 ELSE buf[off + 1] + (256 * ReadUIntLE(buf, off + 1, n - 1))

ReadBigUInt64LE(buf, off) == ReadUIntLE(buf, off, 8)

\* moment ?? await this.getMoment(): the right operand only when the left
\* one is null or undefined; the number 0 is kept.
CoalesceOrZeroToo(moment, d) == IF (~moment.present) \/ moment.v = 0 THEN d ELSE moment.v
Coalesce(moment, d) == IF moment.present THEN moment.v ELSE d

\* What the transport answers to one request. An entry carries its
\* HookStateData (the empty string when there is none), whether the decoder
\* of StateHelpers accepts them and the lastHeartbeatIndex it decodes; the
\* answer to getWalletLocator and getDomain carries the domain as well.
Answer(kind, data, decodes, lastHeartbeatIndex, domain) ==
    [kind |-> kind, data |-> data, decodes |-> decodes,
     lastHeartbeatIndex |-> lastHeartbeatIndex, domain |-> domain]
Entry(data, decodes) == Answer("entry", data, decodes, 0, <<>>)
EntryNotFound == Answer("entryNotFound", <<>>, FALSE, 0, <<>>)
TransportError == Answer("error", <<>>, FALSE, 0, <<>>)
Raised(a) == a.kind # "entry"

\* What a read gives its caller: null, a record, or the error it rethrows.
Record(fields) == [status |-> "record", fields |-> fields]
Rethrown(error) == [status |-> "throw", error |-> error]

\* A variant of the catch clause that swallows every error.
CaughtAll(a) == Null

\* catch (e) { if (e?.data?.error !== 'entryNotFound') throw e; } return null;
Caught(a) == IF a.kind = "entryNotFound" THEN Null ELSE Rethrown("transport")

\* StateHelpers.decode...State(key, data): the record of the given kind.
Decoded(kind, a) == [kind |-> kind, data |-> a.data]

\* Where a read stands after the answers so far: it awaits one more answer,
\* or it is over with an outcome.
More == [next |-> "fetch", ret |-> [status |-> "none"]]
Done(ret) == [next |-> "done", ret |-> ret]

\* The reads of one entry: getDudHostVoteInfo, getPilotedModeVoteInfo,
\* getReputationAddressByOrderedId, getReputationOrderByAddress,
\* getReputationInfoByAddress, getReputationInfo.
readOneEntry(kind, as) ==
    LET a == as[1]
    IN  IF Raised(a) THEN Done(Caught(a))
        ELSE IF ~Truthy(a.data) THEN Done(Null)
        ELSE IF ~a.decodes THEN Done(Rethrown("decode"))
        ELSE Done(Record([state |-> Decoded(kind, a)]))

\* getHostInfo: the host address state, the token id state, the domain.
getHostInfo(as, cfg, clock) ==
    LET a == as[1]
        curMomentStartIdx == getMomentStartIndex(cfg, clock, Absent)
        window == HostHeartbeatFreq * cfg.momentSize
        active == IF a.lastHeartbeatIndex > window
                  THEN a.lastHeartbeatIndex >= curMomentStartIdx - window
                  ELSE a.lastHeartbeatIndex > 0
    IN  IF Raised(a) THEN Done(Caught(a))
        ELSE IF ~Truthy(a.data) THEN Done(Null)
        ELSE IF ~a.decodes THEN Done(Rethrown("decode"))
        ELSE IF Len(as) = 1 THEN More
        ELSE IF Raised(as[2]) THEN Done(Caught(as[2]))
        ELSE IF Len(as) = 2 THEN More
        ELSE IF Raised(as[3]) THEN Done(Caught(as[3]))
        ELSE IF ~Truthy(as[2].data) THEN Done(Null)
        ELSE IF ~as[2].decodes THEN Done(Rethrown("decode"))
        ELSE Done(Record([addrState |-> Decoded("hostAddr", a), active |-> active,
                          domain |-> as[3].data,
                          tokenIdState |-> Decoded("tokenId", as[2])]))

\* getCandidateByOwner: the candidate owner state, then the candidate id state.
getCandidateByOwner(as) ==
    LET a == as[1]
    IN  IF Raised(a) THEN Done(Caught(a))
        ELSE IF ~Truthy(a.data) THEN Done(Null)
        ELSE IF ~a.decodes THEN Done(Rethrown("decode"))
        ELSE IF Len(as) = 1 THEN More
        ELSE IF Raised(as[2]) THEN Done(Caught(as[2]))
        ELSE IF ~Truthy(as[2].data) THEN Done(Null)
        ELSE IF ~as[2].decodes THEN Done(Rethrown("decode"))
        ELSE Done(Record([ownerState |-> Decoded("candidateOwner", a),
                          idState |-> Decoded("candidateId", as[2])]))

\* getCandidateById: the candidate id state and, for a new hook candidate,
\* the candidate owner state.
getCandidateById(candidateId, as) ==
    LET a == as[1]
        candidateType == getCandidateType(candidateId)
    IN  IF Raised(a) THEN Done(Caught(a))
        ELSE IF ~Truthy(a.data) THEN Done(Null)
        ELSE IF ~a.decodes THEN Done(Rethrown("decode"))
        ELSE IF candidateType = NewHook
        THEN IF Len(as) = 1 THEN More
             ELSE IF Raised(as[2]) THEN Done(Caught(as[2]))
             ELSE IF Truthy(as[2].data)
             THEN IF ~as[2].decodes THEN Done(Rethrown("decode"))
                  ELSE Done(Record([ownerState |-> Decoded("candidateOwner", as[2]),
                                    idState |-> Decoded("candidateId", a)]))
             ELSE Done(Record([idState |-> Decoded("candidateId", a),
                               uniqueId |-> candidateId]))
        ELSE IF candidateType = DudHost
        THEN IF ~CanEncodeAccountID(DudHostAddressBuf(candidateId))
             THEN Done(Rethrown("codec"))
             ELSE Done(Record([idState |-> Decoded("candidateId", a),
                               dudHostAddress |->
                                   encodeAccountID(DudHostAddressBuf(candidateId)),
                               uniqueId |-> candidateId]))
        ELSE Done(Record([idState |-> Decoded("candidateId", a), uniqueId |-> candidateId]))

\* The instanceMoment of a reputation contract-info buffer: there is none
\* unless the buffer is longer than the moment offset.
InstanceMomentOf(repBuf) ==
    IF Len(repBuf) > REP_INFO_MOMENT_OFFSET
    THEN Given(ReadBigUInt64LE(repBuf, REP_INFO_MOMENT_OFFSET))
    ELSE Absent

\* getReputationContractInfoByAddress: the wallet locator and the domain of
\* the host, then the contract info kept by its reputation account.
getReputationContractInfoByAddress(moment, as, cfg, clock) ==
    LET a == as[1]
        hostWlBuf == FromHex(a.data)
        repMoment == Coalesce(moment, getMoment(cfg, clock, Absent))
        repBuf == FromHex(as[2].data)
    IN  IF Raised(a) THEN Done(Caught(a))
        ELSE IF ~Truthy(a.data) THEN Done(Null)
        ELSE IF ~CanEncodeAccountID(Slice(hostWlBuf, 1, 21)) THEN Done(Rethrown("codec"))
        ELSE IF ReadUInt8(hostWlBuf, 0) \notin {OneToOne, OneToMany} THEN Done(Null)
        ELSE IF Len(as) = 1 THEN More
        ELSE IF Raised(as[2]) THEN Done(Caught(as[2]))
        ELSE IF ~Truthy(as[2].data) THEN Done(Null)
        ELSE IF /\ Len(repBuf) > REP_INFO_MOMENT_OFFSET
                /\ Len(repBuf) < REP_INFO_MOMENT_OFFSET + 8
        THEN Done(Rethrown("range"))
        ELSE IF InstanceMomentOf(repBuf) = Given(repMoment)
        THEN Done(Record([domain |-> a.domain,
                          pubkey |-> ToHex(Slice(repBuf, REP_INFO_PUBKEY_OFFSET,
                                                 REP_INFO_PEER_PORT_OFFSET)),
                          peerPort |-> ReadUInt16LE(repBuf, REP_INFO_PEER_PORT_OFFSET)]))
        ELSE Done(Null)

\* getReputationInfoByOrderedId of the reputation client. It calls
\* getReputationAddressByOrderedId without awaiting it, so addressInfo is
\* the pending promise, addressInfo?.hostAddress is undefined, and the
\* function returns null whatever the ledger answers to the request.
getReputationInfoByOrderedId(as) == Done(Null)

\* The reads, by name.
EntryReads ==
    {"getDudHostVoteInfo", "getPilotedModeVoteInfo", "getReputationAddressByOrderedId",
     "getReputationOrderByAddress", "getReputationInfoByAddress", "getReputationInfo"}
ReadOps ==
    EntryReads \cup {"getHostInfo", "getCandidateByOwner", "getCandidateById",
                     "getReputationContractInfoByAddress", "getReputationInfoByOrderedId"}

\* Where the read r stands after the answers as.
ReadStep(r, as, cfg, clock) ==
    IF r.op = "getHostInfo" THEN getHostInfo(as, cfg, clock)
    ELSE IF r.op = "getCandidateByOwner" THEN getCandidateByOwner(as)
    ELSE IF r.op = "getCandidateById" THEN getCandidateById(r.candidateId, as)
    ELSE IF r.op = "getReputationContractInfoByAddress"
    THEN getReputationContractInfoByAddress(r.moment, as, cfg, clock)
    ELSE IF r.op = "getReputationInfoByOrderedId" THEN getReputationInfoByOrderedId(as)
    ELSE readOneEntry(r.op, as)

(***************************************************************************)
(* The ledger the reads meet.                                              *)
(***************************************************************************)
\* State data of an entry: none, or some that the decoder accepts or not.
EntryAnswers ==
    {Entry(<<>>, FALSE), EntryNotFound, TransportError}
    \cup {Entry(ToHex(Fill(2, 1)), d) : d \in BOOLEAN}

\* The host address state with the heartbeat index it holds.
HostAddrAnswers ==
    {Entry(<<>>, FALSE), EntryNotFound, TransportError, Entry(ToHex(Fill(2, 1)), FALSE)}
    \cup {Answer("entry", ToHex(Fill(2, 1)), TRUE, h, <<>>) : h \in {0, 1, MaxTime}}

\* The domain of an account: none or some.
Domain == <<101, 118>>
DomainAnswers == {Entry(<<>>, TRUE), Entry(Domain, TRUE), EntryNotFound, TransportError}

\* Wallet locators: none, one too short, <mode(1)><reputation account(20)>.
WalletLocatorAnswers ==
    {EntryNotFound, TransportError}
    \cup {Answer("entry", wl, TRUE, 0, Domain) :
            wl \in {<<>>, ToHex(<<OneToOne>>)}
                   \cup {ToHex(<<mode>> \o Fill(20, 2)) : mode \in 0..OneToMany}}

\* Contract-info buffers: <pubkey(33)><peerPort(2)><instanceMoment(8)>, the
\* same cut short, and one with a byte more.
Pubkey == [i \in 1..33 |-> 171]
PeerPorts == {<<1, 0>>, <<0, 1>>}
MomentBytes == {<<m, 0, 0, 0, 0, 0, 0, 0>> : m \in {0, 1, MaxTime}}
               \cup {<<0, 1, 0, 0, 0, 0, 0, 0>>}
RepInfoExample == Pubkey \o <<1, 0>> \o <<5, 0, 0, 0, 0, 0, 0, 0>>
RepBufs ==
    {Pubkey \o p \o m : p \in PeerPorts, m \in MomentBytes}
    \cup {RepInfoExample,
          RepInfoExample \o <<9>>,
          SubSeq(RepInfoExample, 1, 40),
          SubSeq(RepInfoExample, 1, 36),
          SubSeq(RepInfoExample, 1, 35),
          SubSeq(RepInfoExample, 1, 10)}
RepInfoAnswers ==
    {Entry(<<>>, FALSE), EntryNotFound, TransportError}
    \cup {Entry(ToHex(b), TRUE) : b \in RepBufs}

\* The moments a caller asks for: none given, or one.
MomentArgs == {Absent} \cup {Given(m) : m \in {0, 1, 5, 256}}

\* The answers the transport may give to the next request of the read r.
AnswersFor(r) ==
    IF r.op = "getReputationContractInfoByAddress"
    THEN IF Len(r.answers) = 0 THEN WalletLocatorAnswers ELSE RepInfoAnswers
    ELSE IF r.op = "getHostInfo"
    THEN IF Len(r.answers) = 0 THEN HostAddrAnswers
         ELSE IF Len(r.answers) = 1 THEN EntryAnswers
         ELSE DomainAnswers
    ELSE EntryAnswers

(***************************************************************************)
(* The calls of the reads.                                                 *)
(***************************************************************************)
NoRead ==
    [op |-> "none", candidateId |-> <<>>, moment |-> Absent, pc |-> "idle",
     answers |-> <<>>, ret |-> [status |-> "none"]]

\* A read is called. It goes up to its first request to the transport.
StartRead ==
    /\ read.pc = "idle"
    /\ \E op \in ReadOps :
        \E id \in (IF op = "getCandidateById" THEN CandidateIds ELSE {<<>>}) :
        \E m \in (IF op = "getReputationContractInfoByAddress" THEN MomentArgs
                   ELSE {Absent}) :
            read' = [op |-> op, candidateId |-> id, moment |-> m, pc |-> "fetch",
                     answers |-> <<>>, ret |-> [status |-> "none"]]
    /\ UNCHANGED first
    /\ UNCHANGED classifyVars
    /\ UNCHANGED momentVars
    /\ UNCHANGED <<lifecycleVars, handlerVars>>

\* The transport answers the request the read awaits; the read goes on to
\* its next request or to its end.
LedgerAnswer ==
    /\ read.pc = "fetch"
    /\ \E a \in AnswersFor(read) :
        LET as == Append(read.answers, a)
            s == ReadStep(read, as, config, now)
        IN  read' = [read EXCEPT !.answers = as, !.pc = s.next, !.ret = s.ret]
    /\ UNCHANGED first
    /\ UNCHANGED classifyVars
    /\ UNCHANGED momentVars
    /\ UNCHANGED <<lifecycleVars, handlerVars>>

\* The caller has taken the outcome of the read.
ReadReturn ==
    /\ read.pc = "done"
    /\ read' = NoRead
    /\ UNCHANGED first
    /\ UNCHANGED classifyVars
    /\ UNCHANGED momentVars
    /\ UNCHANGED <<lifecycleVars, handlerVars>>

(***************************************************************************)
(* Defaults (defaults.js): the process-wide DefaultValues object, set and  *)
(* the values getter. A value is Absent (undefined, null) or Given(n); the *)
(* number 0 stands for the falsy values 0 and ''.                          *)
(***************************************************************************)
DefaultKeys == {"governorAddress", "rippledServer", "stateIndexId", "networkID", "xrplApi"}

\* const DefaultValues = { xrplApi: null }
DefaultValues == [k \in DefaultKeys |-> Absent]

RequiredInfoKeys == <<"governorAddress", "rippledServer", "stateIndexId", "networkID">>

\* !v of JavaScript.
Falsy(v) == ~v.present \/ v.v = 0

\* Defaults.set(newDefaults): Object.assign(DefaultValues, newDefaults)
DefaultsSet(stored, newDefaults) ==
    [k \in DefaultKeys |-> IF k \in DOMAIN newDefaults THEN newDefaults[k] ELSE stored[k]]

\* A variant of the getter that hands out DefaultValues itself.
DefaultsValuesShared(stored) ==
    LET notFound == {i \in DOMAIN RequiredInfoKeys : Falsy(stored[RequiredInfoKeys[i]])}
    IN  IF notFound # {}
        THEN [status |-> "throw",
              key |-> RequiredInfoKeys[CHOOSE i \in notFound : \A j \in notFound : i <= j],
              value |-> stored, ref |-> "none", mutated |-> FALSE]
        ELSE [status |-> "record", key |-> "", value |-> stored, ref |-> "DefaultValues",
              mutated |-> FALSE]

\* Defaults.values: throws `Value for ${notFound} is not set.` for the first
\* required key with a falsy value, and returns { ...DefaultValues } otherwise.
DefaultsValues(stored) ==
    LET notFound == {i \in DOMAIN RequiredInfoKeys : Falsy(stored[RequiredInfoKeys[i]])}
    IN  IF notFound # {}
        THEN [status |-> "throw",
              key |-> RequiredInfoKeys[CHOOSE i \in notFound : \A j \in notFound : i <= j],
              value |-> stored, ref |-> "none", mutated |-> FALSE]
        ELSE [status |-> "record", key |-> "", value |-> stored, ref |-> "copy",
              mutated |-> FALSE]

\* Nothing read from Defaults.values yet.
NoValues ==
    [status |-> "none", key |-> "", value |-> DefaultValues, ref |-> "none",
     mutated |-> FALSE]

\* Arguments of Defaults.set: every required key; what test.js sets; a
\* network id of 0; two keys written again; a key set to undefined.
RequiredDefaults ==
    [governorAddress |-> Given(1), rippledServer |-> Given(1), stateIndexId |-> Given(1),
     networkID |-> Given(1)]
TestDefaults == [governorAddress |-> Given(1), xrplApi |-> Given(1), networkID |-> Given(2)]

DefaultsArgs ==
    {RequiredDefaults,
     TestDefaults,
     [networkID |-> Given(0)],
     [rippledServer |-> Given(2), stateIndexId |-> Given(2)],
     [governorAddress |-> Absent]}

\* DefaultValues as the module is loaded, and after calls of set.
InitialDefaults == [stored |-> DefaultValues, sets |-> <<>>, got |-> NoValues]
DefaultsAfter(d, newDefaults) ==
    [stored |-> DefaultsSet(d.stored, newDefaults), sets |-> Append(d.sets, newDefaults),
     got |-> NoValues]

\* Defaults.set(newDefaults)
SetDefaults ==
    /\ Len(defaults.sets) < MaxSets
    /\ \E newDefaults \in DefaultsArgs :
        defaults' = DefaultsAfter(defaults, newDefaults)
    /\ UNCHANGED <<xrplApis, instances>>
    /\ UNCHANGED <<momentVars, classifyVars, otherVars, handlerVars>>

\* const values = Defaults.values
ReadDefaults ==
    /\ defaults.got.status = "none"
    /\ defaults' = [defaults EXCEPT !.got = DefaultsValues(defaults.stored)]
    /\ UNCHANGED <<xrplApis, instances>>
    /\ UNCHANGED <<momentVars, classifyVars, otherVars, handlerVars>>

\* values[k] = v  by the caller that holds the object the getter returned.
MutateValues ==
    /\ defaults.got.status = "record"
    /\ ~defaults.got.mutated
    /\ \E k \in DefaultKeys, v \in {Absent, Given(2)} :
        LET written == [defaults.got.value EXCEPT ![k] = v]
        IN  defaults' = [defaults EXCEPT
                            !.got = [defaults.got EXCEPT !.value = written, !.mutated = TRUE],
                            !.stored = IF defaults.got.ref = "DefaultValues"
                                       THEN written ELSE defaults.stored]
    /\ UNCHANGED <<xrplApis, instances>>
    /\ UNCHANGED <<momentVars, classifyVars, otherVars, handlerVars>>

(***************************************************************************)
(* The life of a client object: constructor, connect, disconnect and       *)
(* refreshConfig. Two client objects are followed; XrplApi 0 is the one    *)
(* the application made (handed over in options.xrplApi or through         *)
(* Defaults), XrplApi i is the one client i makes for itself. The variable *)
(* config holds the content of the config object of client 1.              *)
(***************************************************************************)
Instances == {1, 2}
SharedApi == 0
Apis == {SharedApi} \cup Instances

\* The object this.config refers to: none (undefined), the caller's
\* options.config, or the n-th object #getEvernodeConfig built for a client.
NoConfigObject == [by |-> "none", owner |-> 0, n |-> 0]
OptionsConfig == [by |-> "caller", owner |-> 0, n |-> 0]

\* A variant that fills the object already there.
SameConfigObject(inst, i) ==
    IF inst.config = NoConfigObject THEN [by |-> "client", owner |-> i, n |-> 1]
    ELSE inst.config

\* let config = {} ... return config  of #getEvernodeConfig: a new object.
NewConfigObject(inst, i) == [by |-> "client", owner |-> i, n |-> inst.builds + 1]

\* The configurations the ledger holds while the clients run.
LedgerConfigs ==
    {[baseIdx |-> 0, baseTransitionMoment |-> 0, momentSize |-> 1],
     [baseIdx |-> 1, baseTransitionMoment |-> 1, momentSize |-> 2]}

NoInstance ==
    [made |-> FALSE, xrplApi |-> SharedApi, ownsXrplApi |-> FALSE, autoSubscribe |-> FALSE,
     connected |-> FALSE, subscribed |-> FALSE, config |-> NoConfigObject, builds |-> 0,
     lastOp |-> "none"]

\* A client on the application's XrplApi after connect() with autoSubscribe.
ConnectedInstance ==
    [made |-> TRUE, xrplApi |-> SharedApi, ownsXrplApi |-> FALSE, autoSubscribe |-> TRUE,
     connected |-> TRUE, subscribed |-> TRUE,
     config |-> [by |-> "client", owner |-> 1, n |-> 1], builds |-> 1, lastOp |-> "connect"]

\* Constructor options: which of governorAddress, xrplApi and config the
\* caller gives, and the autoSubscribe argument.
OptionInputs ==
    [governorAddress : BOOLEAN, xrplApi : BOOLEAN, config : BOOLEAN, autoSubscribe : BOOLEAN]

\* Whether the constructor reads Defaults.values, which may throw.
ReadsDefaults(options) == ~options.governorAddress \/ ~options.xrplApi

\* A variant that looks at the options alone.
OwnsWithoutOption(options, stored) == ~options.xrplApi

\* if (!options.xrplApi && !Defaults.values.xrplApi) this.#ownsXrplApi = true;
OwnsXrplApi(options, stored) == ~options.xrplApi /\ Falsy(stored.xrplApi)

\* new BaseEvernodeClient(address, secret, watchEvents, autoSubscribe, options)
Construct(i) ==
    /\ ~instances[i].made
    /\ \E options \in OptionInputs :
        /\ ReadsDefaults(options) => DefaultsValues(defaults.stored).status = "record"
        /\ instances' =
            [instances EXCEPT ![i] =
                [made |-> TRUE,
                 xrplApi |-> IF options.xrplApi \/ ~Falsy(defaults.stored.xrplApi)
                             THEN SharedApi ELSE i,
                 ownsXrplApi |-> OwnsXrplApi(options, defaults.stored),
                 autoSubscribe |-> options.autoSubscribe,
                 connected |-> FALSE,
                 subscribed |-> FALSE,
                 config |-> IF options.config THEN OptionsConfig ELSE NoConfigObject,
                 builds |-> 0,
                 lastOp |-> "constructor"]]
        /\ IF i = 1 /\ options.config THEN config' \in LedgerConfigs ELSE config' = config
    /\ UNCHANGED <<defaults, xrplApis>>
    /\ UNCHANGED <<now, last, prev>>
    /\ UNCHANGED <<classifyVars, otherVars, handlerVars>>

\* connect(options): reachable tells whether xrplApi.connect() and
\* xrplAcc.getInfo() succeed.
Connect(i) ==
    /\ instances[i].made
    /\ \E skipConfigs \in BOOLEAN, reachable \in BOOLEAN :
        LET inst == instances[i]
            loads == inst.config = NoConfigObject /\ ~skipConfigs
        IN  IF inst.connected
            THEN /\ instances' = [instances EXCEPT ![i].lastOp = "connect"]
                 /\ UNCHANGED <<xrplApis, config>>
            ELSE IF ~reachable
            THEN /\ instances' = [instances EXCEPT ![i].lastOp = "connectFailed"]
                 /\ UNCHANGED <<xrplApis, config>>
            ELSE /\ loads => inst.builds < MaxBuilds
                 /\ xrplApis' = [xrplApis EXCEPT ![inst.xrplApi] = TRUE]
                 /\ instances' =
                     [instances EXCEPT ![i] =
                         [inst EXCEPT
                             !.config = IF loads THEN NewConfigObject(inst, i) ELSE @,
                             !.builds = IF loads THEN @ + 1 ELSE @,
                             !.connected = TRUE,
                             !.subscribed = @ \/ inst.autoSubscribe,
                             !.lastOp = "connect"]]
                 /\ IF i = 1 /\ loads THEN config' \in LedgerConfigs ELSE config' = config
    /\ UNCHANGED defaults
    /\ UNCHANGED <<now, last, prev>>
    /\ UNCHANGED <<classifyVars, otherVars, handlerVars>>

\* disconnect()
Disconnect(i) ==
    /\ instances[i].made
    /\ instances' = [instances EXCEPT ![i].subscribed = FALSE, ![i].lastOp = "disconnect"]
    /\ xrplApis' = IF instances[i].ownsXrplApi
                   THEN [xrplApis EXCEPT ![instances[i].xrplApi] = FALSE]
                   ELSE xrplApis
    /\ UNCHANGED defaults
    /\ UNCHANGED momentVars
    /\ UNCHANGED <<classifyVars, otherVars, handlerVars>>

\* refreshConfig(): it reads the ledger, so the XrplApi has to be connected.
RefreshConfig(i) ==
    /\ instances[i].made
    /\ xrplApis[instances[i].xrplApi]
    /\ instances[i].builds < MaxBuilds
    /\ instances' =
        [instances EXCEPT ![i] =
            [instances[i] EXCEPT !.config = NewConfigObject(instances[i], i),
                                 !.builds = @ + 1,
                                 !.lastOp = "refreshConfig"]]
    /\ IF i = 1 THEN config' \in LedgerConfigs ELSE config' = config
    /\ UNCHANGED <<defaults, xrplApis>>
    /\ UNCHANGED <<now, last, prev>>
    /\ UNCHANGED <<classifyVars, otherVars, handlerVars>>

(***************************************************************************)
(* #handleEvernodeEvent: every transaction the account subscription        *)
(* delivers starts an invocation of its own. An invocation runs up to the  *)
(* await of decrypt in one step and goes on when decrypt answers; several  *)
(* invocations can wait at that await at once.                             *)
(***************************************************************************)
\* Transactions delivered to the handler: two leases with encrypted
\* payloads, a lease with a JSON payload, a lease whose payload is no JSON,
\* an extension, a proposal, and a payment that is no Evernode event.
EncryptedLease(e, body) ==
    [Tx(IF e = EventTypes.ACQUIRE_LEASE THEN URI_TOKEN_BUY_OFFER ELSE PAYMENT,
        Addr(MaxAddr), OwnAddress,
        <<TypeParam(e), DataParam(ToHex(Fill(32, 2)))>>,
        <<Memo(e, MemoFormats.BASE64, ToBase64(body))>>)
     EXCEPT !.URITokenSellOffer = Offer(7, 3)]

HandlerTxs ==
    {EncryptedLease(EventTypes.ACQUIRE_LEASE, <<1>> \o Fill(5, 9)),
     EncryptedLease(EventTypes.ACQUIRE_SUCCESS, <<1, 55>>),
     EncryptedLease(EventTypes.ACQUIRE_SUCCESS, <<0, 123, 125>>),
     EncryptedLease(EventTypes.ACQUIRE_SUCCESS, <<0, 123>>),
     Tx(PAYMENT, Addr(MaxAddr), OwnAddress,
        <<TypeParam(EventTypes.EXTEND_LEASE), DataParam(ToHex(Fill(32, 1)))>>, <<>>),
     Tx(PAYMENT, OwnAddress, Addr(MaxAddr), ProposeHookParams(Fill(128, 1), <<97, 98>>), <<>>),
     Tx(PAYMENT, Addr(MaxAddr), OwnAddress, <<>>, <<>>)}

\* What the subscription hands to the handler: (tx, error).
DeliveryInputs ==
    {[tx |-> t, hasTx |-> TRUE, error |-> FALSE] : t \in HandlerTxs}
    \cup {[tx |-> NoTx, hasTx |-> FALSE, error |-> FALSE],
          [tx |-> NoTx, hasTx |-> FALSE, error |-> TRUE]}

\* The watch lists of the clients: none (ReputationClient), the lease
\* events, the lease events and the governance events.
LeaseWatchList == {"AcquireLease", "AcquireSuccess", "ExtendLease"}
WatchLists == {{}, LeaseWatchList, LeaseWatchList \cup {"CandidateProposed"}}

\* extractEvernodeEvent(t) from its start to its return or to the await of
\* decrypt.
CallStart(t, c) ==
    LET rule == RuleOf(t)
        s == LeaseStart(t, c)
    IN  IF IsLeaseRule(rule)
        THEN [pc |-> IF s.next = "await" THEN "decrypt" ELSE "done",
              payload |-> s.payload,
              result |-> IF s.next = "await" THEN NoResult
                         ELSE IF s.next = "throw" THEN Threw
                         ELSE LeaseEvent(rule, t, s.payload)]
        ELSE [pc |-> "done", payload |-> NoPayload, result |-> RuleBody(rule, t)]

\* A variant in which the payload is a field the invocations share.
PayloadOfLatest(ds, i) == ds[Len(ds)].payload

\* let payload = ...  : a local variable of the i-th invocation.
PayloadOf(ds, i) == ds[i].payload

\* A variant that emits every event, watched or not.
HandleResultUnwatched(i, ev, watch) ==
    [emits |-> IF ev.status = "event"
               THEN <<[delivery |-> i, name |-> ev.name, data |-> ev.data]>> ELSE <<>>,
     rejected |-> FALSE]

\* A variant without the try/catch.
HandleResultUncaught(i, ev, watch) ==
    [emits |-> IF ev.status = "event" /\ ev.name \in watch
               THEN <<[delivery |-> i, name |-> ev.name, data |-> ev.data]>> ELSE <<>>,
     rejected |-> ev.status = "throw"]

\* try { const ev = await this.extractEvernodeEvent(tx);
\*       if (ev && this.#watchEvents.find(e => e === ev.name))
\*           this.events.emit(ev.name, ev.data); }
\* catch (e) { console.log(...) }
\* for the i-th delivery: the emit calls made, and whether the promise of
\* the handler is rejected.
HandleResult(i, ev, watch) ==
    [emits |-> IF ev.status = "event" /\ ev.name \in watch
               THEN <<[delivery |-> i, name |-> ev.name, data |-> ev.data]>> ELSE <<>>,
     rejected |-> FALSE]

\* The subscription delivers (tx, error). A rejected promise nobody handles
\* ends the process, so nothing is delivered after one.
Deliver ==
    /\ Len(deliveries) < MaxDeliveries
    /\ \A k \in DOMAIN deliveries : ~deliveries[k].rejected
    /\ \E d \in DeliveryInputs :
        LET i == Len(deliveries) + 1
            skipped == d.error \/ ~d.hasTx
            c == IF skipped
                 THEN [pc |-> "done", payload |-> NoPayload, result |-> NoResult]
                 ELSE CallStart(d.tx, client)
            h == IF skipped \/ c.pc = "decrypt"
                 THEN [emits |-> <<>>, rejected |-> FALSE]
                 ELSE HandleResult(i, c.result, watchEvents)
        IN  /\ deliveries' =
                Append(deliveries,
                       [tx |-> d.tx, hasTx |-> d.hasTx, error |-> d.error,
                        pc |-> IF c.pc = "decrypt" THEN "decrypt" ELSE "finished",
                        payload |-> c.payload, result |-> c.result,
                        decrypted |-> "unset", rejected |-> h.rejected])
            /\ emitted' = emitted \o h.emits
    /\ UNCHANGED watchEvents
    /\ UNCHANGED <<momentVars, classifyVars, otherVars, lifecycleVars>>

\* EncryptionHelper.decrypt answers the i-th invocation, which goes on to
\* its end.
DecryptAnswer ==
    \E i \in DOMAIN deliveries, ok \in BOOLEAN :
        /\ deliveries[i].pc = "decrypt"
        /\ LET p == AfterDecrypt(PayloadOf(deliveries, i), ok)
               ev == LeaseEvent(RuleOf(deliveries[i].tx), deliveries[i].tx, p)
               h == HandleResult(i, ev, watchEvents)
           IN  /\ deliveries' =
                    [deliveries EXCEPT ![i] =
                        [deliveries[i] EXCEPT !.pc = "finished", !.payload = p,
                                              !.result = ev,
                                              !.decrypted = IF ok THEN "value" ELSE "null",
                                              !.rejected = h.rejected]]
               /\ emitted' = emitted \o h.emits
        /\ UNCHANGED watchEvents
        /\ UNCHANGED <<momentVars, classifyVars, otherVars, lifecycleVars>>

(***************************************************************************)
(* Specifications.                                                         *)
(***************************************************************************)
\* A client, connected with its configuration loaded.
Loaded ==
    /\ config = [baseIdx |-> 0, baseTransitionMoment |-> 0, momentSize |-> 1]
    /\ now = 1
    /\ last = NoCall
    /\ prev = NoCall
    /\ client \in Clients
    /\ gen = "none"
    /\ tx = NoTx
    /\ pc = "idle"
    /\ payload = NoPayload
    /\ result = NoResult
    /\ decryptCalls = 0
    /\ decrypted = "unset"
    /\ read = NoRead
    /\ first = NoFirst
    /\ defaults = InitialDefaults
    /\ xrplApis = [a \in Apis |-> a = SharedApi]
    /\ instances = [i \in Instances |-> IF i = 1 THEN ConnectedInstance ELSE NoInstance]
    /\ deliveries = <<>>
    /\ emitted = <<>>

Init == Loaded /\ watchEvents = LeaseWatchList

\* The same, with any of the watch lists.
HandlerInit == Loaded /\ watchEvents \in WatchLists

Next ==
    \/ ExtractEvernodeEvent
    \/ ExtractLegacyEvent
    \/ ExtractEvernodeHookEvent
    \/ DecryptResolve
    \/ Return

Spec == Init /\ [][Next]_vars

\* Calls of extractEvernodeEvent of the current client, each transaction
\* handed to it once or twice.
ReplayNext ==
    \/ ExtractEvernodeEvent
    \/ DecryptResolve
    \/ Replay
    \/ Return

SpecReplay == Init /\ [][ReplayNext]_vars

\* The ledger reads of the client.
LedgerNext ==
    \/ StartRead
    \/ LedgerAnswer
    \/ ReadReturn

SpecLedger == Init /\ [][LedgerNext]_vars

\* Defaults.set and Defaults.values, from the module as loaded.
DefaultsNext ==
    \/ SetDefaults
    \/ ReadDefaults
    \/ MutateValues

SpecDefaults == Init /\ [][DefaultsNext]_vars

\* The subscription of a connected client delivers transactions.
HandlerNext ==
    \/ Deliver
    \/ DecryptAnswer

SpecHandler == HandlerInit /\ [][HandlerNext]_vars

\* Client objects are made, connected and disconnected, and client 1 is
\* used. Before anything is made the application may have set the defaults.
ClientInit ==
    /\ config \in LedgerConfigs
    /\ now = 1
    /\ last = NoCall
    /\ prev = NoCall
    /\ client = [address |-> OwnAddress, messagePrivateKey |-> TRUE]
    /\ gen = "none"
    /\ tx = NoTx
    /\ pc = "idle"
    /\ payload = NoPayload
    /\ result = NoResult
    /\ decryptCalls = 0
    /\ decrypted = "unset"
    /\ read = NoRead
    /\ first = NoFirst
    /\ defaults \in {InitialDefaults,
                     DefaultsAfter(InitialDefaults, RequiredDefaults),
                     DefaultsAfter(DefaultsAfter(InitialDefaults, RequiredDefaults),
                                   TestDefaults)}
    /\ xrplApis = [a \in Apis |-> FALSE]
    /\ instances = [i \in Instances |-> NoInstance]
    /\ watchEvents = LeaseWatchList
    /\ deliveries = <<>>
    /\ emitted = <<>>

\* No call of client 1 has been made yet.
Unused == last = NoCall /\ read = NoRead /\ deliveries = <<>>

\* Client 1 is connected with a configuration, and is the only client.
Usable ==
    /\ Unused
    /\ instances[1].connected
    /\ instances[1].config # NoConfigObject
    /\ xrplApis[instances[1].xrplApi]
    /\ ~instances[2].made

\* The clients are set up first; then client 1 serves one kind of call.
ClientNext ==
    \/ Unused /\ \E i \in Instances : Construct(i)
    \/ Unused /\ \E i \in Instances : Connect(i)
    \/ Unused /\ \E i \in Instances : Disconnect(i)
    \/ Unused /\ \E i \in Instances : RefreshConfig(i)
    \/ Usable /\ \E index \in Indexes : CallGetMoment(index)
    \/ Usable /\ \E index \in Indexes : CallGetMomentStartIndex(index)
    \/ Usable /\ instances[1].subscribed /\ Deliver
    \/ DecryptAnswer
    \/ Usable /\ StartRead
    \/ LedgerAnswer
    \/ ReadReturn

SpecClient == ClientInit /\ [][ClientNext]_vars

\* The moment arithmetic, for every configuration and every timestamp.
SpecMomentInit ==
    /\ config \in Configs
    /\ now \in 1..MaxTime
    /\ last = NoCall
    /\ prev = NoCall
    /\ client = [address |-> OwnAddress, messagePrivateKey |-> TRUE]
    /\ gen = "none"
    /\ tx = NoTx
    /\ pc = "idle"
    /\ payload = NoPayload
    /\ result = NoResult
    /\ decryptCalls = 0
    /\ decrypted = "unset"
    /\ read = NoRead
    /\ first = NoFirst
    /\ defaults = InitialDefaults
    /\ xrplApis = [a \in Apis |-> a = SharedApi]
    /\ instances = [i \in Instances |-> IF i = 1 THEN ConnectedInstance ELSE NoInstance]
    /\ watchEvents = LeaseWatchList
    /\ deliveries = <<>>
    /\ emitted = <<>>

MomentNext ==
    \/ \E index \in Indexes : CallGetMoment(index)
    \/ \E index \in Indexes : CallGetMomentStartIndex(index)
    \/ Tick

SpecMoment == SpecMomentInit /\ [][MomentNext]_vars

(***************************************************************************)
(* Properties.                                                             *)
(***************************************************************************)
\* The chain of the classifier that handles the transaction in hand.
ChainOf(g, t) ==
    IF g = "current" THEN Chain(t)
    ELSE IF g = "legacy" THEN LegacyChain(t)
    ELSE IF Len(t.Memos) = 0 THEN <<>>
    ELSE HookChain(t)

Returned == pc = "done"

\* C1: for an event of type EventTypes.HOST_DEREG with event data, the call returns
\* HostDeregistered; its host is the address decoded from the first 20 bytes
\* of the payload when the payload is 53 bytes long, and tx.Account for a
\* payload of any other length.
C1_HostDeregisteredHost ==
    (/\ Returned
     /\ gen = "current"
     /\ EventTypeOf(tx) = EventTypes.HOST_DEREG
     /\ Truthy(EventDataOf(tx)))
    => /\ result.status = "event"
       /\ result.name = "HostDeregistered"
       /\ result.data.host =
            IF Len(FromHex(EventDataOf(tx))) = HOST_DEREG_FROM_REP_PARAM_SIZE
            THEN encodeAccountID(Slice(FromHex(EventDataOf(tx)), 0, 20))
            ELSE tx.Account

\* A transaction as _propose builds it: the type, the first 256 bytes, the rest.
IsProposal(t) ==
    /\ Len(t.HookParameters) = 3
    /\ t.HookParameters[1] = TypeParam(EventTypes.CANDIDATE_PROPOSE)
    /\ t.HookParameters[2].name = HookParamKeys.PARAM_EVENT_DATA_KEY
    /\ t.HookParameters[3].name = HookParamKeys.PARAM_EVENT_DATA2_KEY
    /\ Len(t.HookParameters[2].hex) + Len(t.HookParameters[3].hex)
         = 2 * CANDIDATE_PROPOSE_PARAM_SIZE

\* C2: for a proposal as _propose builds it, the candidateId of the returned
\* CandidateProposed event is the 32 bytes at offset 264 of the two data
\* parameters put together.
C2_ProposedCandidateId ==
    (Returned /\ gen = "current" /\ IsProposal(tx))
    => /\ result.status = "event"
       /\ result.name = "CandidateProposed"
       /\ result.data.candidateId =
            Substr(tx.HookParameters[2].hex \o tx.HookParameters[3].hex,
                   2 * CANDIDATE_PROPOSE_UNIQUE_ID_PARAM_OFFSET, 64)

\* C3: getMomentStartIndex applied to its own result returns that result,
\* for every given timestamp, a result of 0 included.
C3_StartIndexIdempotent ==
    (/\ prev.op = "getMomentStartIndex"
     /\ prev.index.present
     /\ last.op = "getMomentStartIndex"
     /\ last.index = Given(prev.ret))
    => last.ret = prev.ret

\* C4: getMoment does not decrease: for given timestamps t1 <= t2, zero
\* included, getMoment(t1) <= getMoment(t2).
C4_MomentMonotone ==
    (/\ prev.op = "getMoment"
     /\ prev.index.present
     /\ last.op = "getMoment"
     /\ last.index.present
     /\ prev.index.v <= last.index.v)
    => prev.ret <= last.ret

\* C5: for every given timestamp t, getMoment(t) is
\* baseTransitionMoment + floor((t - baseIdx) / momentSize); the clock is
\* read only when no timestamp is given.
C5_MomentFormula ==
    (last.op = "getMoment" /\ last.index.present)
    => last.ret = config.baseTransitionMoment
                  + FloorDiv(last.index.v - config.baseIdx, config.momentSize)

\* C6: a transaction that satisfies none of the dispatch predicates makes
\* the call return null; the call does not throw. This holds of the three
\* classifiers.
C6_NoMatchReturnsNull ==
    (Returned /\ SatisfiedRules(ChainOf(gen, tx)) = {}) => result = Null

C6_Witness ==
    /\ Returned
    /\ gen = "current"
    /\ EventTypeOf(tx) = EventTypes.REFUND
    /\ Truthy(EventDataOf(tx))
    /\ tx.Memos # <<>>
    /\ result = Null

\* The rule matched, but what it reads is not there: the vote or status
\* byte at offset 32 of the data, or the second memo of the older heartbeat.
SubFieldAbsent(g, t) ==
    LET rule == FirstRule(ChainOf(g, t))
    IN  \/ /\ g = "current"
           /\ rule \in {"Heartbeat", "CandidateStatusChange", "CandidateVote"}
           /\ Truthy(EventDataOf(t))
           /\ Len(FromHex(EventDataOf(t))) < 33
        \/ /\ g = "legacy"
           /\ rule = "Heartbeat"
           /\ Truthy(t.Memos[1].data)
           /\ Len(t.Memos) < 2

\* C7: when a rule matches and a field it reads is absent, the call returns
\* null; it does not throw.
C7_AbsentSubFieldReturnsNull ==
    (Returned /\ SubFieldAbsent(gen, tx)) => result = Null

\* C8: a transaction satisfies at most one dispatch predicate of the chain
\* that classifies it.
C8_PredicatesExclusive ==
    (pc # "idle") => Cardinality(SatisfiedRules(ChainOf(gen, tx))) <= 1

C8_Witness ==
    /\ Returned
    /\ gen = "current"
    /\ SatisfiedRules(Chain(tx)) = {"HostRebate"}
    /\ Truthy(EventDataOf(tx))
    /\ tx.Memos # <<>>
    /\ result.status = "event"

\* The format flag of a lease payload: the first byte of the decoded memo.
HasFlag(t) == Len(t.Memos) >= 1 /\ Len(FromBase64(t.Memos[1].data)) >= 1
FlagOf(t) == FromBase64(t.Memos[1].data)[1]

\* C9: the current classifier calls decrypt only for a transaction whose
\* Destination is the client's own address and whose memo payload, decoded
\* from base64, starts with the byte 1.
C9_DecryptOnlyOwnEncrypted ==
    (gen = "current" /\ decryptCalls > 0)
    => /\ IsLeaseRule(RuleOf(tx))
       /\ tx.Destination = client.address
       /\ HasFlag(tx)
       /\ FlagOf(tx) = 1

C9_Witness ==
    /\ pc = "decrypt"
    /\ gen = "current"
    /\ decryptCalls = 1
    /\ tx.Destination = client.address
    /\ FlagOf(tx) = 1

\* A lease-acquisition event of the current classifier whose payload starts
\* with a flag other than 1 and goes on with a JSON text.
PlainLeaseEvent ==
    /\ Returned
    /\ gen = "current"
    /\ IsLeaseRule(RuleOf(tx))
    /\ result.status = "event"
    /\ HasFlag(tx)
    /\ FlagOf(tx) # 1

\* C10, as stated: the payload of every lease-acquisition event whose flag
\* is not 1 is the JSON decoding of the bytes after the flag.
C10_PlainPayloadIsJson ==
    (PlainLeaseEvent /\ CanJsonParse(SliceFrom(FromBase64(tx.Memos[1].data), 1)))
    => result.data.payload = JsonParse(SliceFrom(FromBase64(tx.Memos[1].data), 1))

\* C10, amended: the payload is that JSON decoding when the memo is base64
\* and the Destination is the client's own address; for any other
\* transaction it is the memo data as they stand.
C10_PlainPayloadIsJsonWhenOwn ==
    PlainLeaseEvent
    => result.data.payload =
         IF tx.Memos[1].format = MemoFormats.BASE64 /\ tx.Destination = client.address
         THEN JsonParse(SliceFrom(FromBase64(tx.Memos[1].data), 1))
         ELSE StringPayload(tx.Memos[1].data)

C10_Witness ==
    /\ PlainLeaseEvent
    /\ tx.Destination = client.address
    /\ tx.Memos[1].format = MemoFormats.BASE64
    /\ result.data.payload.kind = "object"

\* A lease acquisition the current classifier has to decrypt: the memo is
\* base64, the Destination is the client's own address, the flag is 1.
Qualifying ==
    /\ gen = "current"
    /\ IsLeaseRule(RuleOf(tx))
    /\ tx.Memos[1].format = MemoFormats.BASE64
    /\ tx.Destination = client.address
    /\ HasFlag(tx)
    /\ FlagOf(tx) = 1

\* The payload handed to decrypt: the bytes after the flag, in base64.
EncryptedPayload(t) == StringPayload(ToBase64(SliceFrom(FromBase64(t.Memos[1].data), 1)))

\* C11: when decrypt answers nothing for a payload with flag 1 sent to the
\* client's own address, the call does not throw: it returns the
\* AcquireLease / AcquireSuccess event, and the payload of the event is the
\* encrypted payload as it was handed to decrypt.
C11_DecryptFailureKeepsPayload ==
    (Returned /\ Qualifying /\ decryptCalls = 1 /\ decrypted = "null")
    => /\ result.status = "event"
       /\ result.name = RuleOf(tx)
       /\ result.data.payload = EncryptedPayload(tx)

C11_Witness ==
    /\ Returned
    /\ Qualifying
    /\ decryptCalls = 1
    /\ decrypted = "null"
    /\ result.status = "event"
    /\ result.name = "AcquireSuccess"
    /\ Len(result.data.payload.v) > 0

\* C12, as stated: for every lease acquisition with flag 1 sent to the
\* client's own address, one call of extractEvernodeEvent invokes decrypt
\* exactly once, and returns its event only when decrypt has answered.
C12_DecryptAwaitedOnce ==
    /\ (Qualifying /\ Returned) => (decryptCalls = 1 /\ decrypted \in {"value", "null"})
    /\ (Qualifying /\ pc = "decrypt") => (decryptCalls = 1 /\ result = NoResult)

\* C12, amended: that holds of a client that has a message private key; a
\* client without one never invokes decrypt and returns the event with the
\* encrypted payload.
C12_DecryptAwaitedOnceWithKey ==
    /\ (Qualifying /\ Returned /\ client.messagePrivateKey)
       => (decryptCalls = 1 /\ decrypted \in {"value", "null"})
    /\ (Qualifying /\ pc = "decrypt")
       => (client.messagePrivateKey /\ decryptCalls = 1 /\ result = NoResult)
    /\ (Qualifying /\ pc # "idle" /\ ~client.messagePrivateKey)
       => /\ decryptCalls = 0
          /\ Returned
          /\ result.status = "event"
          /\ result.data.payload = EncryptedPayload(tx)

C12_Witness ==
    /\ Qualifying
    /\ Returned
    /\ client.messagePrivateKey
    /\ decryptCalls = 1
    /\ decrypted = "value"
    /\ result.status = "event"
    /\ result.data.payload.kind = "decrypted"

\* The event data of the transaction in hand, as bytes and as candidate id.
EventDataBuf == FromHex(EventDataOf(tx))
CandidateIdOf == ToHex(Slice(EventDataBuf, 0, 32))

\* C13: a CANDIDATE_STATUS_CHANGE with a payload of 33 bytes returns one
\* event chosen by the type of the candidate id: for DudHost, DudHostRemoved
\* when the status is CANDIDATE_ELECTED and DudHostStatusChanged otherwise,
\* with the host at bytes 12..32 of the id; for PilotedMode,
\* FallbackToPiloted; for NewHook, NewHookStatusChanged; never null.
C13_StatusChangeByCandidateType ==
    (/\ Returned
     /\ gen = "current"
     /\ RuleOf(tx) = "CandidateStatusChange"
     /\ Len(EventDataBuf) = 33)
    => /\ result.status = "event"
       /\ result.data.candidateId = CandidateIdOf
       /\ getCandidateType(CandidateIdOf) \in {DudHost, PilotedMode, NewHook}
       /\ getCandidateType(CandidateIdOf) = DudHost
            => /\ result.name = IF EventDataBuf[33] = CANDIDATE_ELECTED
                                THEN "DudHostRemoved" ELSE "DudHostStatusChanged"
               /\ result.data.host = encodeAccountID(SubSeq(EventDataBuf, 13, 32))
       /\ getCandidateType(CandidateIdOf) = PilotedMode => result.name = "FallbackToPiloted"
       /\ getCandidateType(CandidateIdOf) = NewHook => result.name = "NewHookStatusChanged"

C13_Witness ==
    /\ Returned
    /\ gen = "current"
    /\ RuleOf(tx) = "CandidateStatusChange"
    /\ Len(EventDataBuf) = 33
    /\ EventDataBuf[33] = CANDIDATE_ELECTED
    /\ result.status = "event"
    /\ result.name = "DudHostRemoved"

\* C14: a LINKED_CANDIDATE_REMOVE with event data returns
\* LinkedDudHostCandidateRemoved, with the host at bytes 12..32 of the
\* candidate id, exactly when the id is of type DudHost; for an id of
\* another type it returns null, whatever rule comes later in the chain.
C14_LinkedRemoveOnlyDudHost ==
    (/\ Returned
     /\ gen = "current"
     /\ EventTypeOf(tx) = EventTypes.LINKED_CANDIDATE_REMOVE
     /\ Truthy(EventDataOf(tx)))
    => IF getCandidateType(CandidateIdOf) = DudHost
       THEN /\ result.status = "event"
            /\ result.name = "LinkedDudHostCandidateRemoved"
            /\ result.data.candidateId = CandidateIdOf
            /\ result.data.host = encodeAccountID(SubSeq(EventDataBuf, 13, 32))
       ELSE result = Null

C14_Witness ==
    /\ Returned
    /\ gen = "current"
    /\ EventTypeOf(tx) = EventTypes.LINKED_CANDIDATE_REMOVE
    /\ CandidateIdOf = getPilotedModeCandidateId
    /\ result = Null

\* C15: for every account address, the dud-host candidate id made of it is
\* of type DudHost and bytes 12..32 of the id are the address; the
\* DudHostReported event of a transaction made by _reportDudHost(addr) has
\* host = addr.
C15_DudHostIdRoundTrip ==
    /\ \A a \in Addresses :
         /\ getCandidateType(getDudHostCandidateId(a)) = DudHost
         /\ encodeAccountID(DudHostAddressBuf(getDudHostCandidateId(a))) = a
    /\ \A a \in Addresses :
         (Returned /\ gen = "current" /\ tx.HookParameters = ReportDudHostHookParams(a))
         => /\ result.status = "event"
            /\ result.name = "DudHostReported"
            /\ result.data.candidateId = getDudHostCandidateId(a)
            /\ result.data.host = a

C15_Witness ==
    /\ Returned
    /\ gen = "current"
    /\ tx.HookParameters = ReportDudHostHookParams(Addr(MaxAddr))
    /\ result.status = "event"
    /\ result.data.host = Addr(MaxAddr)

\* A finished getReputationContractInfoByAddress that found a contract-info
\* buffer, the buffer, and the moment the call asks for.
RepRead ==
    /\ read.op = "getReputationContractInfoByAddress"
    /\ read.pc = "done"
    /\ Len(read.answers) = 2
    /\ read.answers[2].kind = "entry"
    /\ Truthy(read.answers[2].data)
RepBufOf == FromHex(read.answers[2].data)
QueriedMoment ==
    IF read.moment.present THEN read.moment.v
    ELSE config.baseTransitionMoment + ((now - config.baseIdx) \div config.momentSize)

\* Bytes 35..42 of a buffer as a little-endian integer.
StoredMoment(b) ==
    b[36] + 256 * (b[37] + 256 * (b[38] + 256 * (b[39] + 256 * (b[40]
          + 256 * (b[41] + 256 * (b[42] + 256 * b[43]))))))

\* C16: of a contract-info buffer the read takes pubkey from bytes [0,33),
\* peerPort from bytes [33,35), least significant byte first, and
\* instanceMoment from bytes [35,43), least significant byte first; the
\* buffer of 33 bytes 0xAB, then 01 00, then 05 and seven 00 has
\* peerPort 1 and instanceMoment 5.
C16_ContractInfoLayout ==
    /\ (RepRead /\ Len(RepBufOf) >= REP_INFO_BUFFER_SIZE)
       => read.ret = IF StoredMoment(RepBufOf) = QueriedMoment
                     THEN Record([domain |-> read.answers[1].domain,
                                  pubkey |-> ToHex(SubSeq(RepBufOf, 1, 33)),
                                  peerPort |-> RepBufOf[34] + 256 * RepBufOf[35]])
                     ELSE Null
    /\ (RepRead /\ RepBufOf = RepInfoExample)
       => /\ (read.moment = Given(5)) <=> (read.ret.status = "record")
          /\ (read.ret.status = "record") => (read.ret.fields.peerPort = 1)

C16_Witness ==
    /\ RepRead
    /\ RepBufOf = RepInfoExample
    /\ read.moment = Given(5)
    /\ read.ret.status = "record"
    /\ read.ret.fields.peerPort = 1

\* C17: getReputationContractInfoByAddress returns a record only if the
\* instanceMoment of the buffer is the moment asked for (the argument, or
\* the current moment when none is given); when the two differ, or the
\* buffer is not longer than the moment offset, it returns null.
C17_RecordOnlyForQueriedMoment ==
    /\ (/\ read.op = "getReputationContractInfoByAddress"
        /\ read.pc = "done"
        /\ read.ret.status = "record")
       => /\ RepRead
          /\ Len(RepBufOf) >= REP_INFO_BUFFER_SIZE
          /\ StoredMoment(RepBufOf) = QueriedMoment
    /\ (/\ RepRead
        /\ \/ Len(RepBufOf) <= REP_INFO_MOMENT_OFFSET
           \/ /\ Len(RepBufOf) >= REP_INFO_BUFFER_SIZE
              /\ StoredMoment(RepBufOf) # QueriedMoment)
       => read.ret = Null

C17_Witness ==
    /\ RepRead
    /\ ~read.moment.present
    /\ Len(RepBufOf) >= REP_INFO_BUFFER_SIZE
    /\ StoredMoment(RepBufOf) = QueriedMoment
    /\ read.ret.status = "record"

\* C18: a contract-info buffer that is there but shorter than its 43 bytes
\* makes the read fail with an error; the read neither decodes it nor
\* returns null.
C18_ShortBufferFails ==
    (RepRead /\ Len(RepBufOf) < REP_INFO_BUFFER_SIZE) => read.ret.status = "throw"

\* The nine reads of the claim, and the answers of a read that are ledger
\* entries (the last request of getHostInfo is for the domain).
NineReads ==
    ReadOps \ {"getReputationContractInfoByAddress", "getReputationInfoByOrderedId"}
EntryIndexes(r) ==
    IF r.op = "getHostInfo" THEN {i \in 1..Len(r.answers) : i <= 2}
    ELSE 1..Len(r.answers)
NoRetry(r) ==
    /\ Len(r.answers) <= 3
    /\ \A i \in 1..(Len(r.answers) - 1) : ~Raised(r.answers[i])
    /\ (r.pc = "fetch") => (\A i \in 1..Len(r.answers) : ~Raised(r.answers[i]))
ErrorsHandled(r) ==
    (r.pc = "done")
    => /\ (r.answers[Len(r.answers)].kind = "entryNotFound") => (r.ret = Null)
       /\ (r.answers[Len(r.answers)].kind = "error") => (r.ret = Rethrown("transport"))

\* C19, as stated: each of the nine reads returns null when a ledger entry
\* it asks for has no state data or the transport raises 'entryNotFound',
\* rethrows any other error, and asks for no entry a second time.
C19_MissingEntryIsNull ==
    (read.op \in NineReads)
    => /\ NoRetry(read)
       /\ ErrorsHandled(read)
       /\ (/\ read.pc = "done"
           /\ \A i \in 1..Len(read.answers) : ~Raised(read.answers[i])
           /\ \E i \in EntryIndexes(read) : ~Truthy(read.answers[i].data))
          => read.ret = Null

\* C19, amended: that holds when the entry without state data is the first
\* the read asks for, and of the second entry of getHostInfo and
\* getCandidateByOwner; getCandidateById of a new hook candidate whose
\* owner entry has no state data returns the candidate without the
\* owner's fields.
C19_MissingFirstEntryIsNull ==
    (read.op \in NineReads)
    => /\ NoRetry(read)
       /\ ErrorsHandled(read)
       /\ (/\ read.pc = "done"
           /\ \A i \in 1..Len(read.answers) : ~Raised(read.answers[i])
           /\ \E i \in EntryIndexes(read) : ~Truthy(read.answers[i].data))
          => IF read.op = "getCandidateById" /\ Truthy(read.answers[1].data)
             THEN read.ret = Record([idState |-> Decoded("candidateId", read.answers[1]),
                                     uniqueId |-> read.candidateId])
             ELSE read.ret = Null

C19_Witness ==
    /\ read.op = "getHostInfo"
    /\ read.pc = "done"
    /\ Len(read.answers) = 2
    /\ read.answers[2].kind = "entryNotFound"
    /\ read.ret = Null

AloneResult(t, c, answer) ==
    LET s == CallStart(t, c)
    IN  IF s.pc = "decrypt"
        THEN LeaseEvent(RuleOf(t), t, AfterDecrypt(s.payload, answer = "value"))
        ELSE s.result

\* C21: calls of extractEvernodeEvent that are in flight together, waiting
\* at the await of decrypt and resumed in any order, each return the event
\* the call returns when it runs alone.
C21_InterleavedCalls ==
    \A i \in DOMAIN deliveries :
        (deliveries[i].pc = "finished" /\ deliveries[i].hasTx /\ ~deliveries[i].error)
        => deliveries[i].result = AloneResult(deliveries[i].tx, client, deliveries[i].decrypted)

\* Two different transactions waited for decrypt together, and the second
\* was resumed first.
C21_Witness ==
    /\ Len(deliveries) = 2
    /\ deliveries[1].pc = "finished"
    /\ deliveries[2].pc = "finished"
    /\ deliveries[1].decrypted = "value"
    /\ deliveries[2].decrypted = "value"
    /\ deliveries[1].tx # deliveries[2].tx
    /\ Len(emitted) = 2
    /\ emitted[1].delivery = 2

\* C22: the config of a client changes only in a step of connect() or
\* refreshConfig(), and then by the assignment of an object built anew; the
\* content of an object once assigned stays as it is. getMoment,
\* getMomentStartIndex, the handling of a delivered transaction and the
\* ledger reads leave the config alone.
C22_ConfigFrame ==
    [][/\ \A i \in Instances :
            (/\ instances[i].made
             /\ \/ instances'[i].config # instances[i].config
                \/ i = 1 /\ config' # config)
            => /\ Connect(i) \/ RefreshConfig(i)
               /\ instances'[i].config # instances[i].config
               /\ instances'[i].config.by = "client"
               /\ instances'[i].config.owner = i
               /\ instances'[i].config.n > instances[i].builds
       /\ (last' # last \/ deliveries' # deliveries \/ read' # read)
            => /\ config' = config
               /\ \A i \in Instances : instances'[i].config = instances[i].config]_vars

\* Client 1 has refreshed its config after connect() and has then served a
\* getMoment call.
C22_Witness ==
    /\ instances[1].lastOp = "refreshConfig"
    /\ instances[1].config.n = 2
    /\ last.op = "getMoment"

\* The proposal whose hook parameters are ps.
ProposalOf(ps) ==
    IF Len(ps) # 3 THEN {}
    ELSE {<<f, n>> \in Fills \X ShortNames : ps = ProposeHookParams(Fill(128, f), n)}

C24_OrderedIdInfo ==
    (read.op = "getReputationInfoByOrderedId" /\ read.pc = "done")
    => LET a == read.answers[1]
       IN  /\ (a.kind = "entryNotFound" \/ (a.kind = "entry" /\ ~Truthy(a.data)))
                => read.ret = Null
           /\ (a.kind = "entry" /\ Truthy(a.data) /\ a.decodes)
                => read.ret.status = "record"

\* C25: a client whose connect() has resolved to true has its XrplApi
\* connected.
C25_ConnectedAfterConnect ==
    \A i \in Instances :
        (instances[i].made /\ instances[i].lastOp = "connect")
        => xrplApis[instances[i].xrplApi]

\* C26: an XrplApi goes from connected to disconnected only in disconnect()
\* of the client that made it; a client on the XrplApi of the application
\* does not own it, and its disconnect() ends its subscription and nothing
\* else.
C26_SharedApiStaysConnected ==
    [][/\ \A a \in Apis :
            (xrplApis[a] /\ ~xrplApis'[a])
            => /\ a \in Instances
               /\ Disconnect(a)
               /\ instances[a].xrplApi = a
               /\ instances[a].ownsXrplApi
       /\ \A i \in Instances :
            (instances[i].made /\ instances[i].xrplApi = SharedApi)
            => /\ ~instances[i].ownsXrplApi
               /\ Disconnect(i) => xrplApis' = xrplApis]_vars

\* Both clients are connected on the XrplApi of the application, one of
\* them through Defaults, and client 1 has disconnected since.
C26_Witness ==
    /\ ~Falsy(defaults.stored.xrplApi)
    /\ instances[1].made /\ instances[2].made
    /\ instances[1].xrplApi = SharedApi /\ instances[2].xrplApi = SharedApi
    /\ instances[1].connected /\ instances[2].connected
    /\ instances[1].lastOp = "disconnect"
    /\ instances[2].lastOp = "connect"
    /\ xrplApis[SharedApi]

\* The key-wise merge of the arguments of the set calls so far: for every
\* key the value the last call that names it gave.
MergedDefaults(sets) ==
    [k \in DefaultKeys |->
        LET named == {i \in DOMAIN sets : k \in DOMAIN sets[i]}
        IN  IF named = {} THEN DefaultValues[k]
            ELSE sets[CHOOSE i \in named : \A j \in named : j <= i][k]]

\* What Defaults.values gives when the required keys that count as missing
\* are those that satisfy missing(_).
ValuesAsClaimed(missing(_)) ==
    LET merged == MergedDefaults(defaults.sets)
        got == defaults.got
        lacking == {i \in DOMAIN RequiredInfoKeys : missing(merged[RequiredInfoKeys[i]])}
    IN  /\ defaults.stored = merged
        /\ got.status = "throw"
            => /\ lacking # {}
               /\ got.key = RequiredInfoKeys[CHOOSE i \in lacking : \A j \in lacking : i <= j]
        /\ got.status = "record"
            => /\ lacking = {}
               /\ ~got.mutated => got.value = merged
Unset(v) == ~v.present

\* C27, as stated: Defaults.values throws for the first required key that
\* is unset and returns a copy of the merge when all four are set; writes
\* to the copy leave the stored defaults alone.
C27_DefaultsValues == ValuesAsClaimed(Unset)

\* C27, amended: a required key counts as not set when its value is falsy:
\* never set, set to undefined or null, to 0 or to ''.
C27_DefaultsValuesFalsy == ValuesAsClaimed(Falsy)

\* A copy was returned after two set calls, the second of which wrote a
\* key again, and the caller has written to the copy.
C27_Witness ==
    /\ defaults.got.status = "record"
    /\ defaults.got.mutated
    /\ Len(defaults.sets) >= 2
    /\ \E k \in DOMAIN defaults.sets[1] :
        defaults.sets[1][k] # MergedDefaults(defaults.sets)[k]

\* C28: every emit call belongs to a delivery without error and with a
\* transaction, whose extractEvernodeEvent returned the event emitted, of
\* a name in the watch list; no delivery has two emit calls; a client with
\* an empty watch list emits nothing.
C28_EmitWatchedOnce ==
    /\ \A k \in DOMAIN emitted :
        /\ emitted[k].delivery \in DOMAIN deliveries
        /\ LET d == deliveries[emitted[k].delivery]
           IN  /\ ~d.error
               /\ d.hasTx
               /\ d.result = Event(emitted[k].name, emitted[k].data)
               /\ emitted[k].name \in watchEvents
    /\ \A j, k \in DOMAIN emitted : j # k => emitted[j].delivery # emitted[k].delivery
    /\ watchEvents = {} => emitted = <<>>

\* An event outside the watch list was classified and not emitted, and
\* an event of the watch list was emitted.
C28_Witness ==
    /\ Len(deliveries) = 2
    /\ deliveries[1].result.status = "event"
    /\ deliveries[1].result.name \notin watchEvents
    /\ Len(emitted) = 1
    /\ emitted[1].delivery = 2

\* C29: when extractEvernodeEvent throws, the handler ends without an emit
\* call and without a rejection, and a transaction delivered later is
\* classified and emitted as usual.
C29_ThrowCaught ==
    \A i \in DOMAIN deliveries :
        deliveries[i].result = Threw
        => /\ deliveries[i].pc = "finished"
           /\ ~deliveries[i].rejected
           /\ \A k \in DOMAIN emitted : emitted[k].delivery # i
           /\ \A j \in DOMAIN deliveries :
                (/\ j > i
                 /\ deliveries[j].pc = "finished"
                 /\ deliveries[j].result.status = "event"
                 /\ deliveries[j].result.name \in watchEvents)
                => \E k \in DOMAIN emitted : emitted[k].delivery = j

\* The first delivery threw and the second was emitted.
C29_Witness ==
    /\ Len(deliveries) = 2
    /\ deliveries[1].result = Threw
    /\ Len(emitted) = 1
    /\ emitted[1].delivery = 2

\* C30: the emit calls are made in the order of the deliveries.
C30_DeliveryOrder ==
    \A j, k \in DOMAIN emitted :
        j < k => emitted[j].delivery < emitted[k].delivery

====
